---- MODULE Spec2Model ----
(***************************************************************************)
(* Ray tracing and mirror-image reconstruction of brilliant_demo.          *)
(*                                                                         *)
(* Numbers are exact rationals [n |-> numerator, d |-> denominator > 0] in *)
(* lowest terms, so that the geometry of src/utils/math.ts is computed as  *)
(* written (intersection parameters, distances, normals, reflections) on   *)
(* the inputs for which every square root is rational: unit directions     *)
(* with rational components and segments of rational length.               *)
(***************************************************************************)
EXTENDS Integers, Sequences, FiniteSets, TLC

\* ------------------------------------------------------------------------
\* Exact rational arithmetic (the `number` type on the modelled inputs)
\*
\* Operators bind their arguments through singleton sets, The({e : x \in {a}}),
\* so that every argument is evaluated once, as a call by value.
\* ------------------------------------------------------------------------

The(S) == CHOOSE r \in S : TRUE

Abs(i) == IF i < 0 THEN -i ELSE i

RECURSIVE GCD(_, _)
GCD(a, b) == IF b = 0 THEN a ELSE The({ GCD(b, r) : r \in {a % b} })

Rat(num, den) ==
    The({ The({ [n |-> (s * x) \div g, d |-> (s * y) \div g]
                : g \in {GCD(Abs(x), Abs(y))}, s \in {IF y < 0 THEN -1 ELSE 1} })
          : x \in {num}, y \in {den} })

RI(i) == [n |-> i, d |-> 1]

RNeg(a) == The({ [n |-> -x.n, d |-> x.d] : x \in {a} })

RAdd(a, b) ==
    The({ The({ Rat(x.n * (y.d \div g) + y.n * (x.d \div g), (x.d \div g) * y.d)
                : g \in {GCD(x.d, y.d)} })
          : x \in {a}, y \in {b} })

RSub(a, b) == RAdd(a, RNeg(b))

RMul(a, b) ==
    The({ The({ Rat((x.n \div g1) * (y.n \div g2), (x.d \div g2) * (y.d \div g1))
                : g1 \in {GCD(Abs(x.n), y.d)}, g2 \in {GCD(Abs(y.n), x.d)} })
          : x \in {a}, y \in {b} })

RInv(a) ==
    The({ IF x.n < 0 THEN [n |-> -x.d, d |-> -x.n] ELSE [n |-> x.d, d |-> x.n]
          : x \in {a} })

RDiv(a, b) == RMul(a, RInv(b))

RLt(a, b) == The({ x.n * y.d < y.n * x.d : x \in {a}, y \in {b} })

RLe(a, b) == The({ x.n * y.d <= y.n * x.d : x \in {a}, y \in {b} })

RMin(a, b) == The({ IF RLt(y, x) THEN y ELSE x : x \in {a}, y \in {b} })

RMax(a, b) == The({ IF RLt(x, y) THEN y ELSE x : x \in {a}, y \in {b} })

\* Largest r in lo..hi with r*r <= i, by bisection.
RECURSIVE FloorSqrt(_, _, _)
FloorSqrt(i, lo, hi) ==
    IF lo = hi THEN lo
    ELSE The({ IF mid * mid <= i THEN FloorSqrt(i, mid, h)
                                 ELSE FloorSqrt(i, l, mid - 1)
               : mid \in {(lo + hi + 1) \div 2}, l \in {lo}, h \in {hi} })

\* Math.sqrt on a perfect square; any other argument is outside the model
\* and stops the evaluation.
ISqrt(i) ==
    The({ The({ CHOOSE s \in {r} : s * s = x : r \in {FloorSqrt(x, 0, 46340)} })
          : x \in {i} })

RSqrt(a) == The({ [n |-> ISqrt(x.n), d |-> ISqrt(x.d)] : x \in {a} })

\* ------------------------------------------------------------------------
\* src/utils/math.ts
\* ------------------------------------------------------------------------

Vec(x, y) == [x |-> x, y |-> y]

VI(i, j) == Vec(RI(i), RI(j))

Null == [null |-> TRUE]

\* null where a string is expected: an id or a game result.
NoId == "<null>"

distance(a, b) ==
    The({ The({ RSqrt(RAdd(RMul(dx, dx), RMul(dy, dy)))
                : dx \in {RSub(q.x, p.x)}, dy \in {RSub(q.y, p.y)} })
          : p \in {a}, q \in {b} })

normalize(vector) ==
    The({ The({ IF length = RI(0) THEN VI(0, 0)
                ELSE Vec(RDiv(v.x, length), RDiv(v.y, length))
                : length \in {RSqrt(RAdd(RMul(v.x, v.x), RMul(v.y, v.y)))} })
          : v \in {vector} })

add(a, b) == The({ Vec(RAdd(p.x, q.x), RAdd(p.y, q.y)) : p \in {a}, q \in {b} })

subtract(a, b) == The({ Vec(RSub(p.x, q.x), RSub(p.y, q.y)) : p \in {a}, q \in {b} })

scale(vector, scalar) ==
    The({ Vec(RMul(v.x, k), RMul(v.y, k)) : v \in {vector}, k \in {scalar} })

dot(a, b) == The({ RAdd(RMul(p.x, q.x), RMul(p.y, q.y)) : p \in {a}, q \in {b} })

\* The ray sent back the way it came.
reflect_Reversed(incident, normal) ==
    scale(incident, RI(-1))

reflect(incident, normal) ==
    The({ The({ subtract(i, scale(normalizedNormal, RMul(RI(2), dotProduct)))
                : dotProduct \in {dot(i, normalizedNormal)} })
          : i \in {incident}, normalizedNormal \in {normalize(normal)} })

\* The orientations of the model, named by their angle; cos and sin of each
\* are rational.
Orientations == {"0", "pi/2", "pi", "-pi/2", "atan(4/3)", "pi-atan(4/3)"}

directionFromAngle(angle) ==
    CASE angle = "0"            -> VI(1, 0)
      [] angle = "pi/2"         -> VI(0, 1)
      [] angle = "pi"           -> VI(-1, 0)
      [] angle = "-pi/2"        -> VI(0, -1)
      [] angle = "atan(4/3)"    -> Vec(Rat(3, 5), Rat(4, 5))
      [] angle = "pi-atan(4/3)" -> Vec(Rat(-3, 5), Rat(4, 5))

\* Math.abs(denom) < 1e-10.  A rational n/d with d < 2^31 is below 1e-10
\* exactly when n * 10^10 < d; the two divisions keep the numbers in range
\* (n * s < q exactly when n <= (q - 1) \div s, for integers n >= 0, s > 0).
ParallelScale == 100000

BelowParallelEps(r) ==
    The({ Abs(x.n) = 0
          \/ Abs(x.n) <= (x.d \div ParallelScale - 1) \div ParallelScale
          : x \in {r} })

\* const t, const u of lineIntersection, for a denominator that is not zero.
LineParameters(x1, y1, x2, y2, x3, y3, x4, y4, denom) ==
    [t |-> RDiv(RSub(RMul(RSub(x1, x3), RSub(y3, y4)),
                     RMul(RSub(y1, y3), RSub(x3, x4))), denom),
     u |-> RNeg(RDiv(RSub(RMul(RSub(x1, x2), RSub(y1, y3)),
                          RMul(RSub(y1, y2), RSub(x1, x3))), denom))]

\* A crossing counted from one side of the second segment only.
lineIntersection_OneSided(p1, p2, p3, p4) ==
    The({ The({ IF BelowParallelEps(denom) \/ RLt(denom, RI(0)) THEN Null
                ELSE The({ IF /\ RLe(RI(0), c.t) /\ RLe(c.t, RI(1))
                              /\ RLe(RI(0), c.u) /\ RLe(c.u, RI(1))
                           THEN Vec(RAdd(a.x, RMul(c.t, RSub(b.x, a.x))),
                                    RAdd(a.y, RMul(c.t, RSub(b.y, a.y))))
                           ELSE Null
                           : c \in {LineParameters(a.x, a.y, b.x, b.y,
                                                   p.x, p.y, q.x, q.y, denom)} })
                : denom \in {RSub(RMul(RSub(a.x, b.x), RSub(p.y, q.y)),
                                  RMul(RSub(a.y, b.y), RSub(p.x, q.x)))} })
          : a \in {p1}, b \in {p2}, p \in {p3}, q \in {p4} })

lineIntersection(p1, p2, p3, p4) ==
    The({ The({ IF BelowParallelEps(denom) THEN Null
                ELSE The({ IF /\ RLe(RI(0), c.t) /\ RLe(c.t, RI(1))
                              /\ RLe(RI(0), c.u) /\ RLe(c.u, RI(1))
                           THEN Vec(RAdd(a.x, RMul(c.t, RSub(b.x, a.x))),
                                    RAdd(a.y, RMul(c.t, RSub(b.y, a.y))))
                           ELSE Null
                           : c \in {LineParameters(a.x, a.y, b.x, b.y,
                                                   p.x, p.y, q.x, q.y, denom)} })
                : denom \in {RSub(RMul(RSub(a.x, b.x), RSub(p.y, q.y)),
                                  RMul(RSub(a.y, b.y), RSub(p.x, q.x)))} })
          : a \in {p1}, b \in {p2}, p \in {p3}, q \in {p4} })

RayExtent == 1000

rayLineIntersection(rayOrigin, rayDirection, lineStart, lineEnd) ==
    The({ The({ IF intersection = Null THEN Null
                ELSE IF RLt(dot(subtract(intersection, o), dir), RI(0))
                     THEN Null
                     ELSE [point |-> intersection,
                           distance |-> distance(o, intersection)]
                : intersection \in {lineIntersection(o, add(o, scale(dir, RI(RayExtent))),
                                                     lineStart, lineEnd)} })
          : o \in {rayOrigin}, dir \in {rayDirection} })

\* The segment direction returned in place of its perpendicular.
getNormalFromLine_Tangent(lineStart, lineEnd) ==
    normalize(subtract(lineEnd, lineStart))

getNormalFromLine(lineStart, lineEnd) ==
    The({ normalize(Vec(direction.y, RNeg(direction.x)))
          : direction \in {subtract(lineEnd, lineStart)} })

\* ------------------------------------------------------------------------
\* Inputs of computeRaySegments: ComponentGeometry[] , ViewerSpec, maxLength
\* ------------------------------------------------------------------------

Line(x1, y1, x2, y2, id, refl) ==
    [p1 |-> VI(x1, y1), p2 |-> VI(x2, y2), componentId |-> id, reflect |-> refl]

Geometry(id, type, lines) == [id |-> id, type |-> type, boundingLines |-> lines]

\* bunnyToGeometry of src/physics/geometry.ts: a square of side 0.2 around
\* the position, wound corner to corner.
bunnyToGeometry(id, position) ==
    LET half == Rat(1, 10)
        corners == << Vec(RSub(position.x, half), RSub(position.y, half)),
                      Vec(RAdd(position.x, half), RSub(position.y, half)),
                      Vec(RAdd(position.x, half), RAdd(position.y, half)),
                      Vec(RSub(position.x, half), RAdd(position.y, half)) >>
    IN  Geometry(id, "bunny",
                 [i \in 1..4 |-> [p1 |-> corners[i], p2 |-> corners[(i % 4) + 1],
                                  componentId |-> id, reflect |-> FALSE]])

\* The geometry records scenes are built from.  mirror-1 and mirror-2 are
\* parallel and face each other; wall-1 coincides with mirror-1; a corner of
\* bunny-1 lies on the ray from (0,0) with direction (3,4)/5; mirror-3 is
\* oblique with direction (3,4)/5; wall-3 carries a reflective flag,
\* mirror-4 does not, and phantom-1 and viewer-1 carry a segment.
Catalog ==
    << Geometry("mirror-1", "mirror", << Line(2, -1, 2, 3, "mirror-1", TRUE) >>),
       Geometry("mirror-2", "mirror", << Line(0, -1, 0, 3, "mirror-2", TRUE) >>),
       Geometry("wall-1", "wall", << Line(2, -1, 2, 3, "wall-1", FALSE) >>),
       Geometry("wall-2", "wall", << Line(-1, 3, 3, 3, "wall-2", FALSE) >>),
       bunnyToGeometry("bunny-1", Vec(Rat(1, 2), Rat(9, 10))),
       Geometry("mirror-3", "mirror", << Line(1, -2, 4, 2, "mirror-3", TRUE) >>),
       Geometry("phantom-1", "phantom", << Line(-1, -1, 3, -1, "phantom-1", FALSE) >>),
       Geometry("viewer-1", "viewer",
                << [p1 |-> Vec(RI(-1), Rat(2, 5)), p2 |-> Vec(RI(3), Rat(2, 5)),
                    componentId |-> "viewer-1", reflect |-> FALSE] >>),
       Geometry("wall-3", "wall", << Line(-1, -1, -1, 3, "wall-3", TRUE) >>),
       Geometry("mirror-4", "mirror", << Line(-1, -2, 3, -2, "mirror-4", FALSE) >>) >>

MaxGeometries == 2

\* The members of a set of catalog indices in ascending order.
RECURSIVE Ascending(_)
Ascending(S) ==
    IF S = {} THEN << >>
    ELSE The({ << m >> \o Ascending(S \ {m})
               : m \in {CHOOSE i \in S : \A j \in S : i <= j} })

Reversed(seq) == [i \in 1..Len(seq) |-> seq[Len(seq) + 1 - i]]

\* A scene lists at most MaxGeometries records of the catalog, in catalog
\* order or in the opposite order.
Scenes ==
    UNION { { [i \in 1..Cardinality(S) |-> Catalog[Ascending(S)[i]]],
              [i \in 1..Cardinality(S) |-> Catalog[Reversed(Ascending(S))[i]]] }
            : S \in { T \in SUBSET (1..Len(Catalog)) : Cardinality(T) <= MaxGeometries } }

ViewerPositions ==
    { VI(0, 0), VI(1, 1), Vec(Rat(1999, 1000), RI(1)), Vec(Rat(1, 2), Rat(9, 10)) }

\* The headings tried from a position: all of them in the open, along the
\* x-axis from the position 0.001 before a segment and from the one inside
\* the bunny.
HeadingsAt(p) ==
    IF p \in { VI(0, 0), VI(1, 1) } THEN Orientations ELSE { "0", "pi" }

Viewers ==
    { [id |-> "viewer-1", type |-> "viewer", position |-> v[1], orientation |-> v[2]]
      : v \in { w \in ViewerPositions \X Orientations : w[2] \in HeadingsAt(w[1]) } }

MaxLengths == { RI(-1), RI(0), RI(3), RI(50) }

\* ------------------------------------------------------------------------
\* src/physics/index.ts: findClosestHit
\* ------------------------------------------------------------------------

\* A threshold below zero, which lets through a crossing at the origin itself.
Epsilon_Negative == Rat(-1, 1000)

Epsilon == Rat(1, 1000)

\* An equally distant later intersection replacing the one kept.
AcceptsIntersection_LastWins(intersection, closestHit) ==
    The({ /\ x # Null
          /\ RLt(Epsilon, x.distance)
          /\ (c = Null \/ RLe(x.distance, c.distance))
          : x \in {intersection}, c \in {closestHit} })

\* intersection && intersection.distance > 0.001
\*              && intersection.distance < closestDistance
\* closestDistance is Infinity until a hit is kept and that hit's distance
\* afterwards.
AcceptsIntersection(intersection, closestHit) ==
    The({ /\ x # Null
          /\ RLt(Epsilon, x.distance)
          /\ (c = Null \/ RLt(x.distance, c.distance))
          : x \in {intersection}, c \in {closestHit} })

\* The inner loop over geometry.boundingLines from index i on.
RECURSIVE ScanLines(_, _, _, _, _)
ScanLines(rayOrigin, rayDirection, geometry, i, closestHit) ==
    IF i > Len(geometry.boundingLines) THEN closestHit
    ELSE The({ The({ ScanLines(rayOrigin, rayDirection, geometry, i + 1, next)
                     : next \in { IF AcceptsIntersection(intersection, closest)
                                  THEN [point |-> intersection.point,
                                        distance |-> intersection.distance,
                                        componentId |-> geometry.id,
                                        segmentIndex |-> i - 1,
                                        normal |-> getNormalFromLine(line.p1, line.p2),
                                        isReflective |-> (line.reflect \/ FALSE)]
                                  ELSE closest } })
               : line \in {geometry.boundingLines[i]},
                 closest \in {closestHit},
                 intersection \in {rayLineIntersection(rayOrigin, rayDirection,
                                       geometry.boundingLines[i].p1,
                                       geometry.boundingLines[i].p2)} })

\* The outer loop over geometries from index g on.
RECURSIVE ScanGeometries(_, _, _, _, _)
ScanGeometries(rayOrigin, rayDirection, geometries_, g, closestHit) ==
    IF g > Len(geometries_) THEN closestHit
    ELSE The({ ScanGeometries(rayOrigin, rayDirection, geometries_, g + 1, next)
               : next \in { IF geometries_[g].type = "viewer" THEN closestHit
                            ELSE ScanLines(rayOrigin, rayDirection,
                                           geometries_[g], 1, closestHit) } })

findClosestHit(rayOrigin, rayDirection, geometries_) ==
    The({ ScanGeometries(o, dir, gs, 1, Null)
          : o \in {rayOrigin}, dir \in {rayDirection}, gs \in {geometries_} })

\* ------------------------------------------------------------------------
\* src/physics/index.ts: computeRaySegments
\* ------------------------------------------------------------------------

VARIABLES
    geometries,        \* argument: ComponentGeometry[]
    viewer,            \* argument: ViewerSpec
    maxLength,         \* argument: Meter
    segments,          \* const segments: RaySegment[]
    currentOrigin,     \* let currentOrigin
    currentDirection,  \* let currentDirection
    totalLength,       \* let totalLength
    bounces,           \* let bounces
    hit,               \* const hit of the latest loop iteration (Null: none)
    hitQueries,        \* number of findClosestHit calls made so far
    pc,                \* "entry": before line 40, "loop": at the while
                       \* condition, "hit": after line 50, "returned":
                       \* after return segments
    firstCall,         \* inputs and result of the first completed call
    calls,             \* number of calls started
    raySegments,       \* argument of computeMirrorImage(s): RaySegment[]
    imagePosition,     \* result of computeMirrorImage (Null: null)
    mirrorImages,      \* result of computeMirrorImages
    called,            \* the function called last
    components,        \* store.stageSpec.components
    currentMode,       \* store.currentMode
    selectedComponentId, \* store.selectedComponentId
    storedRays,        \* store.raySegments and store.mirrorImageBunnies
    correctPhantomId,  \* store.correctPhantomId
    gameResult,        \* store.gameResult
    now,               \* Date.now()
    renderedMode,      \* store.currentMode at the latest renderAllComponents
    draggingComponent, \* the id of setupPaper's draggingComponent
    localPosition,     \* spec.position of the component being dragged
    drags,             \* number of drags started
    isAnimating,       \* RayAnimationRenderer.isAnimating
    animationId,       \* RayAnimationRenderer.animationId (0: null)
    animationGroup,    \* the animation whose paper.Group animationGroup is
                       \* (0: null)
    animations         \* the calls of animateUnfoldRay and animateReverseRay
                       \* made so far, each with the state of its closure

\* The locals and arguments of computeRaySegments.
tracer == << geometries, viewer, maxLength, segments, currentOrigin,
             currentDirection, totalLength, bounces, hit, hitQueries, pc >>

\* The record of earlier calls of computeRaySegments.
history == << firstCall, calls >>

\* The argument and results of the mirror image functions.
images == << raySegments, imagePosition, mirrorImages, called >>

\* The store and the clock.
stage == << components, currentMode, selectedComponentId, storedRays,
            correctPhantomId, gameResult, now, renderedMode, draggingComponent,
            localPosition, drags >>

\* The fields of a RayAnimationRenderer and its animations.
animation == << isAnimating, animationId, animationGroup, animations >>

vars == << tracer, history, images, stage, animation >>

\* No call of computeRaySegments is in progress.
TracerIdle ==
    /\ geometries = << >>
    /\ viewer = Null
    /\ maxLength = RI(0)
    /\ segments = << >>
    /\ currentOrigin = Null
    /\ currentDirection = Null
    /\ totalLength = RI(0)
    /\ bounces = 0
    /\ hit = Null
    /\ hitQueries = 0
    /\ pc = "idle"

\* No call has completed.
HistoryIdle ==
    /\ firstCall = Null
    /\ calls = 1

\* No mirror image function is under study.
ImagesIdle ==
    /\ raySegments = << >>
    /\ imagePosition = Null
    /\ mirrorImages = << >>
    /\ called = "idle"

\* No store is under study.
StageIdle ==
    /\ components = << >>
    /\ currentMode = "idle"
    /\ selectedComponentId = NoId
    /\ storedRays = Null
    /\ correctPhantomId = NoId
    /\ gameResult = NoId
    /\ now = 0
    /\ renderedMode = "idle"
    /\ draggingComponent = NoId
    /\ localPosition = Null
    /\ drags = 0

\* No RayAnimationRenderer is under study.
AnimationIdle ==
    /\ isAnimating = FALSE
    /\ animationId = 0
    /\ animationGroup = 0
    /\ animations = << >>

inputs == << geometries, viewer, maxLength >>

maxBounces == 10

InfiniteRayCap == 20

\* A RaySegment; hitComponentId is an optional property.
RaySegment(origin, direction, length) ==
    [origin |-> origin, direction |-> direction, length |-> length]

\* The hit id left out of the segment.
RaySegmentHit_NoId(origin, direction, length, hitComponentId) ==
    [origin |-> origin, direction |-> direction, length |-> length]

RaySegmentHit(origin, direction, length, hitComponentId) ==
    [origin |-> origin, direction |-> direction, length |-> length,
     hitComponentId |-> hitComponentId]

HasHitId(segment) == "hitComponentId" \in DOMAIN segment

\* geometries.find(g => g.id === id)
RECURSIVE FindFrom(_, _, _)
FindFrom(geometries_, id, g) ==
    IF g > Len(geometries_) THEN Null
    ELSE IF geometries_[g].id = id THEN geometries_[g]
    ELSE FindFrom(geometries_, id, g + 1)

\* The last record with the id taken instead of the first.
FindGeometry_Last(geometries_, id) ==
    FindFrom(Reversed(geometries_), id, 1)

FindGeometry(geometries_, id) == FindFrom(geometries_, id, 1)

\* The guard written with < instead of <=.
IsZeroLengthCase_Strict(maxLength_) == RLt(maxLength_, RI(0))

\* maxLength <= 0
IsZeroLengthCase(maxLength_) == RLe(maxLength_, RI(0))

\* The escaping segment drawn without the visual cap.
EscapeLength_NoCap(remainingLength) == remainingLength

\* Math.min(remainingLength, 20)
EscapeLength(remainingLength) == RMin(remainingLength, RI(InfiniteRayCap))

\* The bounce cap compared with <= instead of <.
LoopCondition_OffByOne(bounces_, totalLength_, maxLength_) ==
    bounces_ <= maxBounces /\ RLt(totalLength_, maxLength_)

\* The loop bounded by the length budget only.
LoopCondition_NoBounceCap(bounces_, totalLength_, maxLength_) ==
    RLt(totalLength_, maxLength_)

\* bounces < maxBounces && totalLength < maxLength
LoopCondition(bounces_, totalLength_, maxLength_) ==
    bounces_ < maxBounces /\ RLt(totalLength_, maxLength_)

\* !hitGeometry || hitGeometry.type === 'wall' || hitGeometry.type === 'bunny'
StopsRay(hitGeometry) ==
    hitGeometry = Null \/ hitGeometry.type = "wall" \/ hitGeometry.type = "bunny"

\* A mirror that reflects whatever the flag of the struck segment.
ReflectsRay_IgnoresFlag(hitGeometry, hit_) ==
    hitGeometry.type = "mirror" /\ hit_.normal # Null

\* hitGeometry.type === 'mirror' && hit.normal && hit.isReflective
ReflectsRay(hitGeometry, hit_) ==
    hitGeometry.type = "mirror" /\ hit_.normal # Null /\ hit_.isReflective

Init ==
    /\ geometries \in Scenes
    /\ viewer \in Viewers
    /\ maxLength \in MaxLengths
    /\ segments = << >>
    /\ currentOrigin = viewer.position
    /\ currentDirection = directionFromAngle(viewer.orientation)
    /\ totalLength = RI(0)
    /\ bounces = 0
    /\ hit = Null
    /\ hitQueries = 0
    /\ pc = "entry"
    /\ HistoryIdle
    /\ ImagesIdle
    /\ StageIdle
    /\ AnimationIdle

\* The zero-length case returning without a segment.
ZeroLength_NoSegment ==
    /\ pc = "entry"
    /\ IsZeroLengthCase(maxLength)
    /\ pc' = "returned"
    /\ UNCHANGED << inputs, segments, currentOrigin, currentDirection, totalLength,
                    bounces, hit, hitQueries >>
    /\ UNCHANGED << history, animation, images, stage >>

\* Lines 40-47: the zero-length case.
ZeroLength ==
    /\ pc = "entry"
    /\ IsZeroLengthCase(maxLength)
    /\ segments' = Append(segments, RaySegment(currentOrigin, currentDirection, RI(0)))
    /\ pc' = "returned"
    /\ UNCHANGED << inputs, currentOrigin, currentDirection, totalLength,
                    bounces, hit, hitQueries >>
    /\ UNCHANGED << history, animation, images, stage >>

\* Line 40 not taken: control reaches the while loop.
EnterLoop ==
    /\ pc = "entry"
    /\ ~ IsZeroLengthCase(maxLength)
    /\ pc' = "loop"
    /\ UNCHANGED << inputs, segments, currentOrigin, currentDirection,
                    totalLength, bounces, hit, hitQueries >>
    /\ UNCHANGED << history, animation, images, stage >>

\* Lines 49-50: the while condition holds and the hit query is made.
QueryHit ==
    /\ pc = "loop"
    /\ LoopCondition(bounces, totalLength, maxLength)
    /\ hit' = findClosestHit(currentOrigin, currentDirection, geometries)
    /\ hitQueries' = hitQueries + 1
    /\ pc' = "hit"
    /\ UNCHANGED << inputs, segments, currentOrigin, currentDirection,
                    totalLength, bounces >>
    /\ UNCHANGED << history, animation, images, stage >>

\* Lines 52-64: the query found nothing.
NoHit ==
    /\ pc = "hit"
    /\ hit = Null
    /\ LET remainingLength == RSub(maxLength, totalLength)
       IN  segments' =
             IF RLt(RI(0), remainingLength)
             THEN Append(segments,
                         RaySegment(currentOrigin, currentDirection,
                                    EscapeLength(remainingLength)))
             ELSE segments
    /\ pc' = "returned"
    /\ UNCHANGED << inputs, currentOrigin, currentDirection, totalLength,
                    bounces, hit, hitQueries >>
    /\ UNCHANGED << history, animation, images, stage >>

\* The hit recorded without leaving the loop.
HitStop_NoBreak ==
    /\ pc = "hit"
    /\ hit # Null
    /\ segments' = Append(segments,
                          RaySegmentHit(currentOrigin, currentDirection,
                                        hit.distance, hit.componentId))
    /\ totalLength' = RAdd(totalLength, hit.distance)
    /\ LET hitGeometry == FindGeometry(geometries, hit.componentId)
       IN  StopsRay(hitGeometry) \/ ~ ReflectsRay(hitGeometry, hit)
    /\ pc' = "loop"
    /\ UNCHANGED << inputs, currentOrigin, currentDirection, bounces,
                    hit, hitQueries >>
    /\ UNCHANGED << history, animation, images, stage >>

\* Lines 66-80 and 87-89: the hit ends the ray.
HitStop ==
    /\ pc = "hit"
    /\ hit # Null
    /\ segments' = Append(segments,
                          RaySegmentHit(currentOrigin, currentDirection,
                                        hit.distance, hit.componentId))
    /\ totalLength' = RAdd(totalLength, hit.distance)
    /\ LET hitGeometry == FindGeometry(geometries, hit.componentId)
       IN  StopsRay(hitGeometry) \/ ~ ReflectsRay(hitGeometry, hit)
    /\ pc' = "returned"
    /\ UNCHANGED << inputs, currentOrigin, currentDirection, bounces,
                    hit, hitQueries >>
    /\ UNCHANGED << history, animation, images, stage >>

\* The new origin written into the object currentOrigin refers to, which at
\* the first bounce is viewer.position.
HitReflect_MovesViewer ==
    /\ pc = "hit"
    /\ hit # Null
    /\ segments' = Append(segments,
                          RaySegmentHit(currentOrigin, currentDirection,
                                        hit.distance, hit.componentId))
    /\ totalLength' = RAdd(totalLength, hit.distance)
    /\ LET hitGeometry == FindGeometry(geometries, hit.componentId)
       IN  ~ StopsRay(hitGeometry) /\ ReflectsRay(hitGeometry, hit)
    /\ currentOrigin' = hit.point
    /\ viewer' = IF bounces = 0 THEN [viewer EXCEPT !.position = hit.point] ELSE viewer
    /\ currentDirection' = reflect(currentDirection, hit.normal)
    /\ bounces' = bounces + 1
    /\ pc' = "loop"
    /\ UNCHANGED << geometries, maxLength, hit, hitQueries >>
    /\ UNCHANGED << history, animation, images, stage >>

\* Lines 66-86: the hit reflects the ray.
HitReflect ==
    /\ pc = "hit"
    /\ hit # Null
    /\ segments' = Append(segments,
                          RaySegmentHit(currentOrigin, currentDirection,
                                        hit.distance, hit.componentId))
    /\ totalLength' = RAdd(totalLength, hit.distance)
    /\ LET hitGeometry == FindGeometry(geometries, hit.componentId)
       IN  ~ StopsRay(hitGeometry) /\ ReflectsRay(hitGeometry, hit)
    /\ currentOrigin' = hit.point
    /\ currentDirection' = reflect(currentDirection, hit.normal)
    /\ bounces' = bounces + 1
    /\ pc' = "loop"
    /\ UNCHANGED << inputs, hit, hitQueries >>
    /\ UNCHANGED << history, animation, images, stage >>

\* Lines 49 and 92: the while condition fails and segments is returned.
LoopExit ==
    /\ pc = "loop"
    /\ ~ LoopCondition(bounces, totalLength, maxLength)
    /\ pc' = "returned"
    /\ UNCHANGED << inputs, segments, currentOrigin, currentDirection,
                    totalLength, bounces, hit, hitQueries >>
    /\ UNCHANGED << history, animation, images, stage >>

Next ==
    \/ ZeroLength
    \/ EnterLoop
    \/ QueryHit
    \/ NoHit
    \/ HitStop
    \/ HitReflect
    \/ LoopExit

Spec == Init /\ [][Next]_vars

\* The loop runs to completion once the function is called.
LiveSpec == Spec /\ WF_vars(Next)

\* ------------------------------------------------------------------------
\* src/physics/index.ts: computeRaySegments called again and again
\* ------------------------------------------------------------------------

\* The most calls made one after the other.
MaxCalls == 3

CallScenes ==
    { << >>,
      << Catalog[1] >>,
      << Catalog[1], Catalog[2] >>,
      << Catalog[1], Catalog[5] >>,
      << Catalog[6], Catalog[4] >> }

CallViewers ==
    { [id |-> "viewer-1", type |-> "viewer", position |-> VI(1, 1), orientation |-> "0"],
      [id |-> "viewer-1", type |-> "viewer", position |-> VI(0, 0), orientation |-> "atan(4/3)"] }

CallLengths == { RI(0), RI(3), RI(50) }

CallsInit ==
    /\ geometries \in CallScenes
    /\ viewer \in CallViewers
    /\ maxLength \in CallLengths
    /\ segments = << >>
    /\ currentOrigin = viewer.position
    /\ currentDirection = directionFromAngle(viewer.orientation)
    /\ totalLength = RI(0)
    /\ bounces = 0
    /\ hit = Null
    /\ hitQueries = 0
    /\ pc = "entry"
    /\ HistoryIdle
    /\ ImagesIdle
    /\ StageIdle
    /\ AnimationIdle

\* What is remembered of the calls made: the arguments and the result of
\* the first one, and the number of later calls with other arguments.
Remember(firstCall_, inputs_, segments_) ==
    IF firstCall_ = Null
    THEN [inputs |-> inputs_, result |-> segments_, others |-> 0]
    ELSE IF inputs_ = firstCall_.inputs THEN firstCall_
    ELSE [firstCall_ EXCEPT !.others = @ + 1]

\* The length walked so far kept from the call before.
NextCall_KeepsTotalLength ==
    /\ pc = "returned"
    /\ calls < MaxCalls
    /\ firstCall' = Remember(firstCall, inputs, segments)
    /\ calls' = calls + 1
    /\ geometries' \in CallScenes
    /\ viewer' \in CallViewers
    /\ maxLength' \in CallLengths
    /\ segments' = << >>
    /\ currentOrigin' = viewer'.position
    /\ currentDirection' = directionFromAngle(viewer'.orientation)
    /\ bounces' = 0
    /\ hit' = Null
    /\ hitQueries' = 0
    /\ pc' = "entry"
    /\ UNCHANGED << totalLength, images, stage, animation >>

\* Lines 27-37: the function is called again, after it has returned; its
\* locals are set anew.
NextCall ==
    /\ pc = "returned"
    /\ calls < MaxCalls
    /\ firstCall' = Remember(firstCall, inputs, segments)
    /\ calls' = calls + 1
    /\ geometries' \in CallScenes
    /\ viewer' \in CallViewers
    /\ maxLength' \in CallLengths
    /\ segments' = << >>
    /\ currentOrigin' = viewer'.position
    /\ currentDirection' = directionFromAngle(viewer'.orientation)
    /\ totalLength' = RI(0)
    /\ bounces' = 0
    /\ hit' = Null
    /\ hitQueries' = 0
    /\ pc' = "entry"
    /\ UNCHANGED << images, stage, animation >>

CallsNext ==
    \/ Next
    \/ NextCall

CallsSpec == CallsInit /\ [][CallsNext]_vars

\* ------------------------------------------------------------------------
\* src/physics/index.ts: computeMirrorImage and computeMirrorImages
\* ------------------------------------------------------------------------

\* raySegments.reduce((sum, segment) => sum + segment.length, 0), from
\* index i on with the sum so far.
RECURSIVE ReduceLengths(_, _, _)
ReduceLengths(raySegments_, i, sum) ==
    IF i > Len(raySegments_) THEN sum
    ELSE The({ ReduceLengths(raySegments_, i + 1, t)
               : t \in {RAdd(sum, raySegments_[i].length)} })

\* The direction taken from the last segment of the path.
computeMirrorImage_LastDirection(raySegments_) ==
    IF Len(raySegments_) = 0 THEN Null
    ELSE add(raySegments_[1].origin,
             scale(normalize(raySegments_[Len(raySegments_)].direction),
                   ReduceLengths(raySegments_, 1, RI(0))))

\* Lines 130-160.
computeMirrorImage(raySegments_) ==
    IF Len(raySegments_) = 0 THEN Null
    ELSE LET totalLength_ == ReduceLengths(raySegments_, 1, RI(0))
             firstSegment == raySegments_[1]
             rayDirection == firstSegment.direction
             viewer_ == raySegments_[1].origin
         IN  add(viewer_, scale(normalize(rayDirection), totalLength_))

\* The truth value of segment.hitComponentId: an absent property and the
\* empty string are falsy.
HitsComponent(segment) ==
    "hitComponentId" \in DOMAIN segment /\ segment.hitComponentId # ""

\* raySegments.slice(i), i counted from 0.
Slice(raySegments_, i) == SubSeq(raySegments_, i + 1, Len(raySegments_))

\* The image put in front of the list instead of at its end.
PushImage_Unshift(mirrorImages_, mirrorImagePos, i) ==
    << [position |-> mirrorImagePos, reflectionPointIndex |-> i] >> \o mirrorImages_

\* Lines 196-202: mirrorImages.push({position, reflectionPointIndex}) unless
\* the position is null.
PushImage(mirrorImages_, mirrorImagePos, i) ==
    IF mirrorImagePos = Null THEN mirrorImages_
    ELSE Append(mirrorImages_, [position |-> mirrorImagePos, reflectionPointIndex |-> i])

\* Lines 186-204: the loop over the segments except the last one, from
\* index i (counted from 0) on.
RECURSIVE ImagesLoop(_, _, _)
ImagesLoop(raySegments_, i, mirrorImages_) ==
    IF ~ (i < Len(raySegments_) - 1) THEN mirrorImages_
    ELSE IF HitsComponent(raySegments_[i + 1])
         THEN The({ ImagesLoop(raySegments_, i + 1, m)
                    : m \in {PushImage(mirrorImages_,
                                       computeMirrorImage(Slice(raySegments_, i)), i)} })
         ELSE ImagesLoop(raySegments_, i + 1, mirrorImages_)

\* The test of the last segment left out.
computeMirrorImages_NoTerminalCheck(raySegments_) ==
    IF Len(raySegments_) = 0 THEN << >>
    ELSE ImagesLoop(raySegments_, 0, << >>)

\* Lines 167-208.
computeMirrorImages(raySegments_) ==
    IF Len(raySegments_) = 0 THEN << >>
    ELSE IF ~ HitsComponent(raySegments_[Len(raySegments_)]) THEN << >>
    ELSE ImagesLoop(raySegments_, 0, << >>)

\* The longest path given to the mirror image functions.
MaxPathLength == 5

\* Segments as the tests write them by hand: with and without hit id, with
\* unit directions and with directions that are not normalized.
SegmentPool ==
    { [origin |-> VI(0, 0), direction |-> VI(1, 0), length |-> RI(3),
       hitComponentId |-> "mirror-1"],
      [origin |-> VI(3, 0), direction |-> Vec(Rat(-3, 5), Rat(4, 5)), length |-> Rat(5, 2)],
      [origin |-> VI(1, 1), direction |-> VI(0, 2), length |-> RI(1),
       hitComponentId |-> "bunny-1"],
      [origin |-> VI(2, -1), direction |-> VI(3, 4), length |-> Rat(1, 2)] }

Paths == UNION { [1..n -> SegmentPool] : n \in 0..MaxPathLength }

ImageInit ==
    /\ raySegments \in Paths
    /\ imagePosition = Null
    /\ mirrorImages = << >>
    /\ called = "none"
    /\ TracerIdle
    /\ HistoryIdle
    /\ StageIdle
    /\ AnimationIdle

\* A call of computeMirrorImage(raySegments).
CallComputeMirrorImage ==
    /\ called # "idle"
    /\ imagePosition' = computeMirrorImage(raySegments)
    /\ called' = "computeMirrorImage"
    /\ UNCHANGED << raySegments, mirrorImages >>
    /\ UNCHANGED << tracer, history, animation, stage >>

\* A call of computeMirrorImages(raySegments).
CallComputeMirrorImages ==
    /\ called # "idle"
    /\ mirrorImages' = computeMirrorImages(raySegments)
    /\ called' = "computeMirrorImages"
    /\ UNCHANGED << raySegments, imagePosition >>
    /\ UNCHANGED << tracer, history, animation, stage >>

ImageNext ==
    \/ CallComputeMirrorImage
    \/ CallComputeMirrorImages

ImageSpec == ImageInit /\ [][ImageNext]_vars

\* ------------------------------------------------------------------------
\* src/physics/index.ts: the four exported functions, each on its own
\* ------------------------------------------------------------------------

PureInit ==
    \/ Init
    \/ ImageInit

PureNext ==
    \/ Next
    \/ ImageNext

PureSpec == PureInit /\ [][PureNext]_vars

\* ------------------------------------------------------------------------
\* computeRaySegments on geometry beside the catalog: records that share an
\* id, and a level mirror
\* ------------------------------------------------------------------------

\* A wall and a mirror that carry the same id; the segment of each is
\* flagged reflective.
TwinWall == Geometry("twin", "wall", << Line(2, -1, 2, 3, "twin", TRUE) >>)

TwinMirror == Geometry("twin", "mirror", << Line(0, -1, 0, 3, "twin", TRUE) >>)

\* A mirror along y = 2, its segment flagged reflective.
LevelMirror == Geometry("mirror-5", "mirror", << Line(-1, 2, 3, 2, "mirror-5", TRUE) >>)

\* Each record of the catalog alone, the twins in both orders, and the
\* level mirror alone, with each record of the catalog, and with the two
\* upright mirrors.
TwinScenes ==
    { << Catalog[k] >> : k \in 1..Len(Catalog) }
    \cup { << TwinWall, TwinMirror >>, << TwinMirror, TwinWall >> }
    \cup { << LevelMirror >>, << Catalog[1], Catalog[2], LevelMirror >> }
    \cup { << LevelMirror, Catalog[k] >> : k \in 1..Len(Catalog) }

TwinInit ==
    /\ geometries \in TwinScenes
    /\ viewer \in Viewers
    /\ maxLength \in MaxLengths
    /\ segments = << >>
    /\ currentOrigin = viewer.position
    /\ currentDirection = directionFromAngle(viewer.orientation)
    /\ totalLength = RI(0)
    /\ bounces = 0
    /\ hit = Null
    /\ hitQueries = 0
    /\ pc = "entry"
    /\ HistoryIdle
    /\ ImagesIdle
    /\ StageIdle
    /\ AnimationIdle

TwinSpec == TwinInit /\ [][Next]_vars

\* ------------------------------------------------------------------------
\* src/physics/index.ts: computeRaySegments as one call
\* ------------------------------------------------------------------------

\* Lines 49-90: the while loop, from the state its locals are in.
RECURSIVE TraceLoop(_, _, _, _, _, _, _)
TraceLoop(geometries_, maxLength_, segments_, origin, direction, totalLength_, bounces_) ==
    IF ~ LoopCondition(bounces_, totalLength_, maxLength_) THEN segments_
    ELSE The({ IF h = Null
               THEN IF RLt(RI(0), RSub(maxLength_, totalLength_))
                    THEN Append(segments_,
                                RaySegment(origin, direction,
                                           EscapeLength(RSub(maxLength_, totalLength_))))
                    ELSE segments_
               ELSE IF StopsRay(FindGeometry(geometries_, h.componentId))
                    THEN Append(segments_,
                                RaySegmentHit(origin, direction, h.distance, h.componentId))
               ELSE IF ReflectsRay(FindGeometry(geometries_, h.componentId), h)
                    THEN The({ TraceLoop(geometries_, maxLength_, s, h.point, d, t,
                                         bounces_ + 1)
                               : s \in {Append(segments_,
                                               RaySegmentHit(origin, direction, h.distance,
                                                             h.componentId))},
                                 d \in {reflect(direction, h.normal)},
                                 t \in {RAdd(totalLength_, h.distance)} })
               ELSE Append(segments_,
                           RaySegmentHit(origin, direction, h.distance, h.componentId))
               : h \in {findClosestHit(origin, direction, geometries_)} })

\* Lines 27-93.
computeRaySegments(geometries_, viewer_, maxLength_) ==
    IF IsZeroLengthCase(maxLength_)
    THEN << RaySegment(viewer_.position, directionFromAngle(viewer_.orientation), RI(0)) >>
    ELSE TraceLoop(geometries_, maxLength_, << >>, viewer_.position,
                   directionFromAngle(viewer_.orientation), RI(0), 0)

\* ------------------------------------------------------------------------
\* src/physics/geometry.ts: getAllGeometry
\* ------------------------------------------------------------------------

viewerToGeometry(spec) == Geometry(spec.id, "viewer", << >>)

\* The segment of a wall or mirror: position -/+ direction * length / 2.
SegmentOf(spec, reflect_) ==
    The({ [p1 |-> add(spec.position, scale(direction, RNeg(halfLength))),
           p2 |-> add(spec.position, scale(direction, halfLength)),
           componentId |-> spec.id, reflect |-> reflect_]
          : direction \in {directionFromAngle(spec.orientation)},
            halfLength \in {RDiv(spec.length, RI(2))} })

wallToGeometry(spec) == Geometry(spec.id, "wall", << SegmentOf(spec, FALSE) >>)

\* The segment of a mirror left without the reflective flag.
mirrorToGeometry_NotReflective(spec) == Geometry(spec.id, "mirror", << SegmentOf(spec, FALSE) >>)

mirrorToGeometry(spec) == Geometry(spec.id, "mirror", << SegmentOf(spec, TRUE) >>)

phantomToGeometry(spec) == Geometry(spec.id, "phantom", << >>)

\* The keys of the table componentToGeometry.
GeometryTypes == {"viewer", "wall", "mirror", "bunny", "phantom"}

componentToGeometry(c) ==
    CASE c.type = "viewer" -> viewerToGeometry(c)
      [] c.type = "wall" -> wallToGeometry(c)
      [] c.type = "mirror" -> mirrorToGeometry(c)
      [] c.type = "bunny" -> bunnyToGeometry(c.id, c.position)
      [] c.type = "phantom" -> phantomToGeometry(c)

\* components.filter(c => c.type in componentToGeometry).map(...)
getAllGeometry(components_) ==
    The({ [i \in 1..Len(kept) |-> componentToGeometry(kept[i])]
          : kept \in {SelectSeq(components_, LAMBDA c : c.type \in GeometryTypes)} })

\* ------------------------------------------------------------------------
\* src/store: useStageStore, and src/components/MainStage.vue: the watcher
\* of currentMode and startGame
\* ------------------------------------------------------------------------

\* The latest time the clock shows.
MaxClock == 2

GameRayLength == 50

AppModes == {"edit", "sandbox", "game"}

ViewerSpec(id, position, orientation) ==
    [id |-> id, type |-> "viewer", position |-> position, orientation |-> orientation]

WallSpec(id, position, orientation, length) ==
    [id |-> id, type |-> "wall", position |-> position, orientation |-> orientation,
     length |-> length]

MirrorSpec(id, position, orientation, length) ==
    [id |-> id, type |-> "mirror", position |-> position, orientation |-> orientation,
     length |-> length]

BunnySpec(id, position) == [id |-> id, type |-> "bunny", position |-> position]

PhantomSpec(id, position) == [id |-> id, type |-> "phantom", position |-> position]

MirrorImageSpec(id, position) == [id |-> id, type |-> "mirror_image", position |-> position]

\* Stages as the editor and the JSON panel build them: a viewer that sees
\* the bunny in one mirror, among a wall, two phantoms and a mirror image
\* left by the sandbox; the same without viewer; a viewer facing a wall; a
\* viewer between two facing mirrors; a viewer that sees the bunny after
\* two reflections; a viewer looking into the open; an empty stage.
Stages ==
    { << ViewerSpec("viewer_1", VI(1, 1), "0"),
         MirrorImageSpec("computed_mirror_0_0", VI(3, 3)),
         PhantomSpec("phantom_1", VI(3, 1)),
         MirrorSpec("mirror_1", VI(2, 1), "pi/2", RI(4)),
         BunnySpec("bunny_1", Vec(Rat(1, 2), Rat(9, 10))),
         WallSpec("wall_1", VI(-1, 1), "pi/2", RI(4)),
         PhantomSpec("phantom_2", VI(5, 5)) >>,
      << MirrorSpec("mirror_1", VI(2, 1), "pi/2", RI(4)),
         BunnySpec("bunny_1", Vec(Rat(1, 2), Rat(9, 10))),
         PhantomSpec("phantom_1", VI(3, 1)) >>,
      << WallSpec("wall_1", VI(2, 1), "pi/2", RI(4)),
         ViewerSpec("viewer_1", VI(1, 1), "0"),
         BunnySpec("bunny_1", Vec(Rat(1, 2), Rat(9, 10))),
         PhantomSpec("phantom_1", VI(3, 1)) >>,
      << ViewerSpec("viewer_1", VI(1, 2), "0"),
         MirrorSpec("mirror_1", VI(2, 1), "pi/2", RI(4)),
         MirrorSpec("mirror_2", VI(0, 1), "pi/2", RI(4)),
         PhantomSpec("phantom_1", VI(3, 1)) >>,
      << PhantomSpec("phantom_1", VI(0, 12)),
         ViewerSpec("viewer_1", VI(0, 0), "atan(4/3)"),
         MirrorSpec("mirror_1", VI(3, 4), "pi/2", RI(4)),
         MirrorSpec("mirror_2", VI(0, 8), "0", RI(4)),
         BunnySpec("bunny_1", Vec(Rat(-3, 2), RI(6))) >>,
      << ViewerSpec("viewer_1", VI(1, 1), "pi"),
         PhantomSpec("phantom_1", VI(3, 1)) >>,
      << >> }

\* store.getViewer: the first component of type viewer, undefined if none.
RECURSIVE FindViewerFrom(_, _)
FindViewerFrom(components_, i) ==
    IF i > Len(components_) THEN Null
    ELSE IF components_[i].type = "viewer" THEN components_[i]
    ELSE FindViewerFrom(components_, i + 1)

getViewer(components_) == FindViewerFrom(components_, 1)

\* `computed_phantom_${Date.now()}`
ComputedPhantomId(time) == "computed_phantom_" \o ToString(time)

\* c.id.startsWith('computed_phantom_'), over the ids that occur: the ids
\* of the components of the stages do not start with it.
IsComputedPhantomId(id) == \E time \in 0..(MaxClock + 1) : id = ComputedPhantomId(time)

\* clearRays()
ClearedRays == [raySegments |-> << >>, mirrorImageBunnies |-> << >>]

GameInit ==
    /\ components \in Stages
    /\ currentMode = "edit"
    /\ selectedComponentId = NoId
    /\ storedRays = ClearedRays
    /\ correctPhantomId = NoId
    /\ gameResult = NoId
    /\ now = 1
    /\ renderedMode = "edit"
    /\ draggingComponent = NoId
    /\ localPosition = Null
    /\ drags = 0
    /\ geometries = << >>
    /\ viewer = Null
    /\ maxLength = RI(0)
    /\ segments = << >>
    /\ currentOrigin = Null
    /\ currentDirection = Null
    /\ totalLength = RI(0)
    /\ bounces = 0
    /\ hit = Null
    /\ hitQueries = 0
    /\ pc = "idle"
    /\ HistoryIdle
    /\ ImagesIdle
    /\ AnimationIdle

\* MainStage.vue lines 246-255: the phantom at the first mirror image.
PhantomAt(mirrorImages_, time) ==
    [id |-> ComputedPhantomId(time), type |-> "phantom",
     position |-> mirrorImages_[1].position, scale |-> 1]

\* The phantom put at the last mirror image instead of the first.
startGame_LastImage ==
    IF getViewer(components) = Null
    THEN UNCHANGED << components, correctPhantomId, geometries, viewer, maxLength,
                      segments, mirrorImages >>
    ELSE /\ viewer' = getViewer(components)
         /\ geometries' = getAllGeometry(components)
         /\ maxLength' = RI(GameRayLength)
         /\ segments' = computeRaySegments(geometries', viewer', maxLength')
         /\ mirrorImages' = computeMirrorImages(segments')
         /\ IF Len(mirrorImages') = 0
            THEN UNCHANGED << components, correctPhantomId >>
            ELSE /\ components' =
                      Append(components,
                             [PhantomAt(mirrorImages', now) EXCEPT
                                !.position = mirrorImages'[Len(mirrorImages')].position])
                 /\ correctPhantomId' = ComputedPhantomId(now)

\* MainStage.vue lines 227-256: startGame, whose locals viewer, geometries,
\* raySegments and mirrorImageData are kept in viewer, geometries, segments
\* and mirrorImages.
startGame ==
    IF getViewer(components) = Null
    THEN UNCHANGED << components, correctPhantomId, geometries, viewer, maxLength,
                      segments, mirrorImages >>
    ELSE /\ viewer' = getViewer(components)
         /\ geometries' = getAllGeometry(components)
         /\ maxLength' = RI(GameRayLength)
         /\ segments' = computeRaySegments(geometries', viewer', maxLength')
         /\ mirrorImages' = computeMirrorImages(segments')
         /\ IF Len(mirrorImages') = 0
            THEN UNCHANGED << components, correctPhantomId >>
            ELSE /\ components' = Append(components, PhantomAt(mirrorImages', now))
                 /\ correctPhantomId' = ComputedPhantomId(now)

\* The computed phantoms left on the stage.
leaveGame_KeepsPhantoms ==
    /\ components' = components
    /\ geometries' = << >>
    /\ viewer' = Null
    /\ maxLength' = RI(0)
    /\ segments' = << >>
    /\ mirrorImages' = << >>
    /\ UNCHANGED correctPhantomId

\* MainStage.vue lines 54-60: the watcher on a mode other than game.  The
\* locals of the latest startGame are gone by then.
leaveGame ==
    /\ components' = SelectSeq(components, LAMBDA c : ~ IsComputedPhantomId(c.id))
    /\ geometries' = << >>
    /\ viewer' = Null
    /\ maxLength' = RI(0)
    /\ segments' = << >>
    /\ mirrorImages' = << >>
    /\ UNCHANGED correctPhantomId

\* store.setMode(mode), lines 407-412, followed by the watcher of
\* currentMode (MainStage.vue lines 51-61), which runs when the mode has
\* changed, before the next event is handled.
setMode(mode) ==
    /\ draggingComponent = NoId
    /\ currentMode' = mode
    /\ selectedComponentId' = NoId
    /\ storedRays' = ClearedRays
    /\ gameResult' = NoId
    /\ IF mode = currentMode
       THEN UNCHANGED << components, correctPhantomId, geometries, viewer, maxLength,
                         segments, mirrorImages >>
       ELSE IF mode = "game" THEN startGame ELSE leaveGame
    /\ renderedMode' = IF mode = currentMode THEN renderedMode
                       ELSE IF mode = "game" /\ components' = components
                            THEN renderedMode
                            ELSE mode
    /\ UNCHANGED << now, draggingComponent, localPosition, drags, currentOrigin,
                    currentDirection, totalLength, bounces, hit, hitQueries, pc,
                    history, animation, raySegments, imagePosition, called >>

SetMode == \E mode \in AppModes : setMode(mode)

\* Every guess counted as correct.
GuessResult_AlwaysCorrect(phantomId) == "correct"

\* phantomId === this.correctPhantomId ? 'correct' : 'incorrect'
GuessResult(phantomId) ==
    IF phantomId = correctPhantomId THEN "correct" ELSE "incorrect"

\* store.checkPhantomGuess(phantomId), lines 551-553, called with the id of
\* a phantom of the stage, as the click handler of a phantom and the tests
\* of the store do.
checkPhantomGuess(phantomId) ==
    /\ gameResult' = GuessResult(phantomId)
    /\ UNCHANGED << components, currentMode, selectedComponentId, storedRays,
                    correctPhantomId, now, renderedMode, draggingComponent,
                    localPosition, drags, tracer, history, animation, images >>

CheckPhantomGuess ==
    \E i \in 1..Len(components) :
       /\ components[i].type = "phantom"
       /\ currentMode = "game"
       /\ draggingComponent = NoId
       /\ checkPhantomGuess(components[i].id)

\* ------------------------------------------------------------------------
\* src/components/stage: mouse events on the components of the stage
\* ------------------------------------------------------------------------

\* store.metersToPixelsRatio
metersToPixelsRatio == 50

\* store.stageSpec.worldSize
worldSize == [width |-> 16, height |-> 12]

\* The most drags a user makes.
MaxDrags == 1

\* The points of the mouse events, in pixels.
MousePoints == { [x |-> 1000, y |-> -50] }

pixelsToMeters(pixels, ratio) == Rat(pixels, ratio)

pixelsToMetersVec2(position, ratio) ==
    Vec(pixelsToMeters(position.x, ratio), pixelsToMeters(position.y, ratio))

\* canDrag of BaseComponent, overridden by PhantomBunnyComponent and by
\* MirrorImageComponent.
canDrag(spec, mode) ==
    IF spec.type = "mirror_image" THEN FALSE
    ELSE IF spec.type = "phantom" THEN mode = "edit"
    ELSE IF mode = "edit" THEN TRUE
    ELSE IF mode = "sandbox" THEN spec.type \in {"viewer", "bunny"}
    ELSE FALSE

\* The component with the id, as MainStage.vue rendered it: a copy of the
\* spec in the store.
ComponentById(id) == The({ components[i] : i \in { j \in 1..Len(components) : components[j].id = id } })

\* BaseComponent.onMouseDown, lines 109-122, after the canvas's handler
\* (MainStage.vue lines 210-213) has deselected.
startDrag(spec) ==
    IF canDrag(spec, currentMode)
    THEN /\ drags < MaxDrags
         /\ selectedComponentId' = spec.id
         /\ draggingComponent' = spec.id
         /\ localPosition' = spec.position
         /\ drags' = drags + 1
    ELSE /\ selectedComponentId' = NoId
         /\ UNCHANGED << draggingComponent, localPosition, drags >>

\* A mouse-down on a component of the stage: the canvas's handler, which
\* Vue registered first, then the component's onMouseDown, that of
\* PhantomBunnyComponent (lines 144-153), MirrorImageComponent (lines
\* 267-270) or BaseComponent.
onMouseDown(spec) ==
    IF spec.type = "phantom" /\ currentMode = "game" /\ renderedMode = "game"
    THEN /\ selectedComponentId' = NoId
         /\ gameResult' = GuessResult(spec.id)
         /\ UNCHANGED << draggingComponent, localPosition, drags >>
    ELSE /\ IF spec.type = "mirror_image" \/ (spec.type = "phantom" /\ currentMode # "edit")
            THEN /\ selectedComponentId' = NoId
                 /\ UNCHANGED << draggingComponent, localPosition, drags >>
            ELSE startDrag(spec)
         /\ UNCHANGED gameResult

MouseDown ==
    \E i \in 1..Len(components) :
       /\ draggingComponent = NoId
       /\ onMouseDown(components[i])
       /\ UNCHANGED << components, currentMode, storedRays, correctPhantomId, now,
                       renderedMode, tracer, history, animation, images >>

\* BaseComponent.onMouseMove, lines 124-146, which the view calls on the
\* dragging component.
onMouseMove(point) ==
    /\ draggingComponent # NoId
    /\ canDrag(ComponentById(draggingComponent), currentMode)
    /\ localPosition' =
         The({ Vec(RMax(RI(0), RMin(RI(worldSize.width), newPosition.x)),
                   RMax(RI(0), RMin(RI(worldSize.height), newPosition.y)))
               : newPosition \in {pixelsToMetersVec2(point, metersToPixelsRatio)} })
    /\ UNCHANGED << components, currentMode, selectedComponentId, storedRays,
                    correctPhantomId, gameResult, now, renderedMode, draggingComponent,
                    drags, tracer, history, animation, images >>

MouseMove == \E point \in MousePoints : onMouseMove(point)

\* store.updateComponent(id, updates), lines 475-480.
updateComponent(components_, id, updates) ==
    IF \E i \in 1..Len(components_) : components_[i].id = id
    THEN [i \in 1..Len(components_) |->
            IF i = The({ j \in 1..Len(components_) :
                          /\ components_[j].id = id
                          /\ \A k \in 1..(j - 1) : components_[k].id # id })
            THEN [ f \in DOMAIN components_[i] \cup DOMAIN updates |->
                     IF f \in DOMAIN updates THEN updates[f] ELSE components_[i][f] ]
            ELSE components_[i]]
    ELSE components_

\* BaseComponent.onMouseUp, lines 148-160, with commitSpecToStore, and the
\* watcher of the components (MainStage.vue lines 46-48), which renders
\* them anew.
onMouseUp ==
    /\ draggingComponent # NoId
    /\ components' =
         updateComponent(components, draggingComponent,
                         [ComponentById(draggingComponent) EXCEPT !.position = localPosition])
    /\ renderedMode' = currentMode
    /\ draggingComponent' = NoId
    /\ localPosition' = Null
    /\ UNCHANGED << currentMode, selectedComponentId, storedRays, correctPhantomId,
                    gameResult, now, drags, tracer, history, animation, images >>

MouseUp == onMouseUp

\* store.setRaySegments(segments), lines 524-526.
setRaySegments(segments_) ==
    /\ storedRays' = [storedRays EXCEPT !.raySegments = segments_]
    /\ UNCHANGED << components, currentMode, selectedComponentId, correctPhantomId,
                    gameResult, now, renderedMode, draggingComponent, localPosition,
                    drags, tracer, history, animation, images >>

\* The ray the tests of the store set: one segment of length 5 from the
\* viewer along +X.
SetRaySegments ==
    /\ draggingComponent = NoId
    /\ getViewer(components) # Null
    /\ setRaySegments(<< RaySegment(getViewer(components).position, VI(1, 0), RI(5)) >>)

\* Time passes.
Tick ==
    /\ now < MaxClock
    /\ now' = now + 1
    /\ UNCHANGED << components, currentMode, selectedComponentId, storedRays,
                    correctPhantomId, gameResult, renderedMode, draggingComponent,
                    localPosition, drags, tracer, history, animation, images >>

GameNext ==
    \/ SetMode
    \/ CheckPhantomGuess
    \/ MouseDown
    \/ MouseMove
    \/ MouseUp
    \/ SetRaySegments
    \/ Tick

GameSpec == GameInit /\ [][GameNext]_vars

\* ------------------------------------------------------------------------
\* src/rendering/RayAnimationRenderer.ts: RayAnimationRenderer
\* ------------------------------------------------------------------------

\* The most calls of animateUnfoldRay and animateReverseRay that start an
\* animation.
MaxAnimations == 2

\* The most ray segments handed to an animation.
MaxSegments == 3

\* The most frames one rotation or one reverse animation takes before its
\* progress reaches 1.
MaxFrames == 2

\* raySegments.length of the rays handed to the renderer.
SegmentCounts == 0..MaxSegments

\* The closure of one call of animateUnfoldRay or animateReverseRay:
\* length is raySegments.length, unfoldIndex the loop variable of lines
\* 271-286 (0 for a reverse animation), pending whether a frame the
\* animation requested is yet to run, frames the frames run since
\* startTime, rotated the rotations that reached progress 1, returned
\* whether the animation reached its last statement (line 289, lines
\* 120-122).
Animation(kind, length) ==
    [kind |-> kind, length |-> length,
     unfoldIndex |-> IF kind = "unfold" THEN length - 1 ELSE 0,
     pending |-> TRUE, frames |-> 0, rotated |-> 0, returned |-> FALSE]

\* cancelAnimationFrame(id), lines 220-223. A handle is the animation that
\* requested the frame: an animation has at most one frame pending, the
\* one it requested last, and only reverse animations store their handle.
cancelAnimationFrame(animations_, id) ==
    [a \in 1..Len(animations_) |->
        IF a = id THEN [animations_[a] EXCEPT !.pending = FALSE]
        ELSE animations_[a]]

\* Lines 99 and 340: progress = Math.min(elapsed / animationDuration, 1),
\* 0 standing for every value below 1.
Progresses(anim) == IF anim.frames + 1 < MaxFrames THEN {0, 1} ELSE {1}

\* stopAnimation(), lines 219-225.
stopAnimation ==
    /\ animations' = cancelAnimationFrame(animations, animationId)
    /\ animationId' = 0
    /\ isAnimating' = FALSE
    /\ UNCHANGED animationGroup

\* clear(), lines 395-401, and destroy(), lines 403-405.
clear ==
    /\ animations' = cancelAnimationFrame(animations, animationId)
    /\ animationId' = 0
    /\ isAnimating' = FALSE
    /\ animationGroup' = 0

\* animateUnfoldRay(raySegments) up to its first await, lines 227-285:
\* stopAnimation and clear, then with two segments or more a new group,
\* isAnimating = true and the first frame of animateSegmentRotation
\* requested (line 371), whose handle is not stored.
animateUnfoldRay(length) ==
    IF length < 2
    THEN clear
    ELSE /\ Len(animations) < MaxAnimations
         /\ animations' = Append(cancelAnimationFrame(animations, animationId),
                                 Animation("unfold", length))
         /\ animationId' = 0
         /\ isAnimating' = TRUE
         /\ animationGroup' = Len(animations) + 1

\* animateReverseRay(raySegments, mirrorImageData), lines 53-129, up to
\* the first frame requested (line 128), whose handle is stored.
animateReverseRay(length) ==
    IF length = 0
    THEN clear
    ELSE /\ Len(animations) < MaxAnimations
         /\ animations' = Append(cancelAnimationFrame(animations, animationId),
                                 Animation("reverse", length))
         /\ animationId' = Len(animations) + 1
         /\ isAnimating' = TRUE
         /\ animationGroup' = Len(animations) + 1

\* The frame callback of animateSegmentRotation, lines 330-369, with what
\* animateUnfoldRay does when the awaited promise resolves (lines 271-289):
\* the next rotation is started, or after the last one isAnimating is set
\* to false.
rotationFrame(a, progress) ==
    /\ animations' =
         [animations EXCEPT ![a] =
            IF isAnimating /\ progress < 1
            THEN [@ EXCEPT !.frames = @ + 1]
            ELSE [@ EXCEPT !.unfoldIndex = @ - 1,
                           !.frames = 0,
                           !.rotated = IF isAnimating THEN @ + 1 ELSE @,
                           !.pending = animations[a].unfoldIndex > 1,
                           !.returned = animations[a].unfoldIndex = 1]]
    /\ isAnimating' = IF isAnimating /\ progress < 1 THEN isAnimating
                      ELSE IF animations[a].unfoldIndex = 1 THEN FALSE
                      ELSE isAnimating
    /\ UNCHANGED << animationId, animationGroup >>

\* The frame callback of animateReverseRay, lines 95-126.
reverseFrame(a, progress) ==
    IF ~isAnimating
    THEN /\ animations' = [animations EXCEPT ![a].pending = FALSE]
         /\ UNCHANGED << isAnimating, animationId, animationGroup >>
    ELSE IF progress < 1
         THEN /\ animations' = [animations EXCEPT ![a].frames = @ + 1]
              /\ animationId' = a
              /\ UNCHANGED << isAnimating, animationGroup >>
         ELSE /\ animations' = [animations EXCEPT ![a].pending = FALSE,
                                                  ![a].returned = TRUE]
              /\ isAnimating' = FALSE
              /\ UNCHANGED << animationId, animationGroup >>

AnimationInit ==
    /\ TracerIdle
    /\ HistoryIdle
    /\ ImagesIdle
    /\ StageIdle
    /\ AnimationIdle

\* MainStage.vue animateUnfoldRay, line 323.
AnimateUnfoldRay ==
    /\ \E length \in SegmentCounts : animateUnfoldRay(length)
    /\ UNCHANGED << tracer, history, images, stage >>

\* MainStage.vue startGame and animateReverseRay, lines 267 and 311.
AnimateReverseRay ==
    /\ \E length \in SegmentCounts : animateReverseRay(length)
    /\ UNCHANGED << tracer, history, images, stage >>

StopAnimation ==
    /\ stopAnimation
    /\ UNCHANGED << tracer, history, images, stage >>

\* MainStage.vue onUnmounted, line 335: destroy().
Clear ==
    /\ clear
    /\ UNCHANGED << tracer, history, images, stage >>

\* The browser runs a pending frame of an unfold animation.
RotationFrame ==
    /\ \E a \in 1..Len(animations) :
         /\ animations[a].kind = "unfold"
         /\ animations[a].pending
         /\ \E progress \in Progresses(animations[a]) : rotationFrame(a, progress)
    /\ UNCHANGED << tracer, history, images, stage >>

\* The browser runs the pending frame of a reverse animation.
ReverseFrame ==
    /\ \E a \in 1..Len(animations) :
         /\ animations[a].kind = "reverse"
         /\ animations[a].pending
         /\ \E progress \in Progresses(animations[a]) : reverseFrame(a, progress)
    /\ UNCHANGED << tracer, history, images, stage >>

AnimationNext ==
    \/ Clear
    \/ StopAnimation
    \/ AnimateUnfoldRay
    \/ AnimateReverseRay
    \/ RotationFrame
    \/ ReverseFrame

AnimationSpec == AnimationInit /\ [][AnimationNext]_vars

\* ------------------------------------------------------------------------
\* Properties of computeRaySegments and findClosestHit
\* ------------------------------------------------------------------------

Last(seq) == seq[Len(seq)]

Front(seq) == SubSeq(seq, 1, Len(seq) - 1)

RECURSIVE SumLengths(_)
SumLengths(seq) ==
    IF seq = << >> THEN RI(0)
    ELSE RAdd(SumLengths(Front(seq)), Last(seq).length)

\* The point a segment ends at.
EndPoint(segment) == add(segment.origin, scale(segment.direction, segment.length))

\* C1: for every geometry, viewer and maxLength the path has at most
\* maxBounces + 1 = 11 segments.
C1_AtMostElevenSegments == Len(segments) <= maxBounces + 1

\* Two facing mirrors use the whole bounce budget.
C1_Witness ==
    /\ pc = "returned"
    /\ bounces = maxBounces
    /\ Len(segments) = maxBounces
    /\ \A i \in 1..Len(segments) : HasHitId(segments[i])

\* C2: computeRaySegments always terminates: a loop iteration either ends
\* the trace or increases the bounce count by one, the bounce count never
\* exceeds the cap of 10, and the returned state is eventually reached.
C2_Terminates ==
    /\ [][(pc = "hit" /\ pc' # "returned") =>
            (pc' = "loop" /\ bounces' = bounces + 1 /\ bounces' <= maxBounces)]_vars
    /\ [][(pc = "loop" /\ pc' # "returned") =>
            (pc' = "hit" /\ bounces' = bounces)]_vars
    /\ [](hitQueries <= maxBounces)
    /\ <>(pc = "returned")

\* A trace ended by the bounce cap alone, with length budget left.
C2_Witness ==
    /\ pc = "returned"
    /\ hitQueries = maxBounces
    /\ RLt(totalLength, maxLength)
    /\ hit # Null

\* C3: a hit query that finds nothing while the remaining budget is
\* positive appends exactly one final segment of length
\* min(maxLength - accumulated, 20) without hit id and ends the trace; with
\* no obstacles and positive maxLength the path is one segment of length
\* min(maxLength, 20) from the viewer position.
C3_NoHitAppendsCappedSegment ==
    /\ (/\ pc \in {"loop", "returned"}
        /\ hitQueries > 0
        /\ hit = Null
        /\ RLt(RI(0), RSub(maxLength, totalLength)))
       => /\ pc = "returned"
          /\ Len(segments) = hitQueries
          /\ ~ HasHitId(Last(segments))
          /\ Last(segments).origin = currentOrigin
          /\ Last(segments).direction = currentDirection
          /\ totalLength = SumLengths(Front(segments))
          /\ Last(segments).length =
               RMin(RSub(maxLength, SumLengths(Front(segments))), RI(20))
    /\ (pc = "returned" /\ geometries = << >> /\ RLt(RI(0), maxLength))
       => segments = << RaySegment(viewer.position,
                                   directionFromAngle(viewer.orientation),
                                   RMin(maxLength, RI(20))) >>

\* A ray that escapes after a reflection with more than 20 units left.
C3_Witness ==
    /\ pc = "returned"
    /\ hit = Null
    /\ bounces > 0
    /\ RLt(RI(20), RSub(maxLength, totalLength))
    /\ Last(segments).length = RI(20)

\* The kind of the geometry record an id names.
KindOf(id) == geometries[CHOOSE g \in 1..Len(geometries) : geometries[g].id = id].type

\* The bounding line a hit names by component id and segment index.
StruckLine(h) ==
    geometries[CHOOSE g \in 1..Len(geometries) : geometries[g].id = h.componentId]
        .boundingLines[h.segmentIndex + 1]

\* The point lies on the closed segment from line.p1 to line.p2.
OnLine(point, line) ==
    The({ /\ RSub(RMul(RSub(b.x, a.x), RSub(p.y, a.y)),
                  RMul(RSub(b.y, a.y), RSub(p.x, a.x))) = RI(0)
          /\ RLe(RMin(a.x, b.x), p.x) /\ RLe(p.x, RNeg(RMin(RNeg(a.x), RNeg(b.x))))
          /\ RLe(RMin(a.y, b.y), p.y) /\ RLe(p.y, RNeg(RMin(RNeg(a.y), RNeg(b.y))))
          : p \in {point}, a \in {line.p1}, b \in {line.p2} })

\* The law of reflection about a line, without square roots:
\* d - 2 (d.n / n.n) n for the perpendicular n = (dy, -dx) of the line.
MirrorDirection(d, line) ==
    The({ subtract(d, scale(n, RDiv(RMul(RI(2), dot(d, n)), dot(n, n))))
          : n \in {Vec(RSub(line.p2.y, line.p1.y), RSub(line.p1.x, line.p2.x))} })

\* C4: a closest hit on a wall or a bunny appends a segment of length = hit
\* distance and hit id = that object's id, and this segment is the last of
\* the returned path: no reflection and no further segment follows it.
C4_AbsorbingHitEndsPath ==
    /\ (/\ pc \in {"loop", "returned"}
        /\ hit # Null
        /\ KindOf(hit.componentId) \in {"wall", "bunny"})
       => /\ pc = "returned"
          /\ Len(segments) = hitQueries
          /\ Last(segments) = RaySegmentHit(currentOrigin, currentDirection,
                                            hit.distance, hit.componentId)
          /\ EndPoint(Last(segments)) = hit.point
          /\ OnLine(hit.point, StruckLine(hit))
          /\ bounces = Len(segments) - 1
    /\ \A i \in 1..Len(segments) :
          (HasHitId(segments[i])
             /\ KindOf(segments[i].hitComponentId) \in {"wall", "bunny"})
          => (i = Len(segments) /\ pc = "returned")

\* A ray reflected by a mirror and then absorbed by a bunny.
C4_Witness ==
    /\ pc = "returned"
    /\ Len(segments) >= 2
    /\ HasHitId(Last(segments))
    /\ KindOf(Last(segments).hitComponentId) = "bunny"
    /\ KindOf(segments[1].hitComponentId) = "mirror"

\* C5: a closest hit on a reflective segment of a mirror appends a segment
\* of length = hit distance and hit id = the mirror's id, moves the origin
\* to the hit point, turns the direction by the law of reflection about the
\* struck segment, adds one to the bounce count and the segment length to
\* the accumulated length; each segment starts where the one before ends.
C5_ReflectiveHitContinues ==
    /\ [][(/\ pc = "hit"
           /\ hit # Null
           /\ KindOf(hit.componentId) = "mirror"
           /\ StruckLine(hit).reflect)
          => /\ segments' = Append(segments,
                                   RaySegmentHit(currentOrigin, currentDirection,
                                                 hit.distance, hit.componentId))
             /\ currentOrigin' = hit.point
             /\ currentOrigin' = EndPoint(Last(segments'))
             /\ currentDirection' = MirrorDirection(currentDirection, StruckLine(hit))
             /\ bounces' = bounces + 1
             /\ totalLength' = RAdd(totalLength, Last(segments').length)
             /\ pc' = "loop"]_vars
    /\ [](\A i \in 1..(Len(segments) - 1) :
             /\ segments[i + 1].origin = EndPoint(segments[i])
             /\ \E g \in 1..Len(geometries) :
                  /\ geometries[g].id = segments[i].hitComponentId
                  /\ \E l \in 1..Len(geometries[g].boundingLines) :
                       /\ OnLine(segments[i + 1].origin, geometries[g].boundingLines[l])
                       /\ segments[i + 1].direction =
                            MirrorDirection(segments[i].direction,
                                            geometries[g].boundingLines[l]))

\* An oblique ray reflected by the oblique mirror and by an upright one.
C5_Witness ==
    /\ bounces >= 2
    /\ pc = "loop"
    /\ \E i \in 1..Len(segments) : segments[i].hitComponentId = "mirror-3"
    /\ currentDirection.x # RI(0)
    /\ currentDirection.y # RI(0)

\* C6: for maxLength <= 0 no hit query is made and the result is exactly
\* one segment of length 0 at the viewer's position and heading without
\* hit id, whatever the geometry contains.
C6_ZeroBudgetSingleSegment ==
    RLe(maxLength, RI(0))
    => /\ hitQueries = 0
       /\ hit = Null
       /\ pc \in {"entry", "returned"}
       /\ pc = "returned"
          => segments = << RaySegment(viewer.position,
                                      directionFromAngle(viewer.orientation),
                                      RI(0)) >>

\* A zero budget with a segment of the geometry passing through the viewer.
C6_Witness ==
    /\ pc = "returned"
    /\ maxLength = RI(0)
    /\ \E g \in 1..Len(geometries) :
          /\ geometries[g].type # "viewer"
          /\ \E l \in 1..Len(geometries[g].boundingLines) :
               OnLine(viewer.position, geometries[g].boundingLines[l])

\* C7: for every geometry and every maxLength > 0 the sum of the lengths of
\* the returned segments never exceeds maxLength.
C7_SumWithinBudget ==
    RLt(RI(0), maxLength) => RLe(SumLengths(segments), maxLength)

\* The bounding lines of the records that are not of kind viewer, as pairs
\* << record index, line index >>.
HittableLines ==
    UNION { { << g, l >> : l \in 1..Len(geometries[g].boundingLines) }
            : g \in { k \in 1..Len(geometries) : geometries[k].type # "viewer" } }

\* The intersection of the ray with the line named by a pair.
Crossing(o, dir, c) ==
    rayLineIntersection(o, dir, geometries[c[1]].boundingLines[c[2]].p1,
                                geometries[c[1]].boundingLines[c[2]].p2)

\* The ray crosses the line of the pair farther than 0.001 from its origin.
IsCandidate(o, dir, c) ==
    The({ x # Null /\ RLt(Rat(1, 1000), x.distance) : x \in {Crossing(o, dir, c)} })

\* The pairs whose line the ray crosses farther than 0.001 from its origin.
Candidates(o, dir) == { c \in HittableLines : IsCandidate(o, dir, c) }

\* C8: a segment carries a hit id iff its leg ended by striking a line of
\* the object with that id; a segment without hit id is a leg that reached
\* its length cap without a hit, and only the last segment can be one.
C8_HitIdIffStruck ==
    \A i \in 1..Len(segments) :
       IF HasHitId(segments[i])
       THEN /\ \E c \in HittableLines :
                 IsCandidate(segments[i].origin, segments[i].direction, c)
            /\ \E c \in HittableLines :
                 /\ geometries[c[1]].id = segments[i].hitComponentId
                 /\ OnLine(EndPoint(segments[i]), geometries[c[1]].boundingLines[c[2]])
       ELSE /\ i = Len(segments)
            /\ pc = "returned"
            /\ IF RLe(maxLength, RI(0))
               THEN segments[i].length = RI(0)
               ELSE /\ Candidates(segments[i].origin, segments[i].direction) = {}
                    /\ segments[i].length =
                         RMin(RSub(maxLength, SumLengths(SubSeq(segments, 1, i - 1))),
                              RI(20))

\* Two legs that struck mirrors and a last leg that struck nothing.
C8_Witness ==
    /\ pc = "returned"
    /\ Len(segments) >= 3
    /\ HasHitId(segments[1])
    /\ HasHitId(segments[2])
    /\ ~ HasHitId(Last(segments))

\* The pair comes no later than the other in iteration order.
NoLater(c, other) == c[1] < other[1] \/ (c[1] = other[1] /\ c[2] <= other[2])

\* The accepted crossings of the ray, as pairs << pair, intersection >>.
Crossings(o, dir) ==
    { << c, Crossing(o, dir, c) >> : c \in Candidates(o, dir) }

\* The crossing is the first of those at minimum distance.
IsClosestFirst(x, X) ==
    \A other \in X :
       /\ RLe(x[2].distance, other[2].distance)
       /\ x[2].distance = other[2].distance => NoLater(x[1], other[1])

\* C9: findClosestHit returns the accepted intersection of minimum distance
\* over all lines of all records not of kind viewer, the first in iteration
\* order among equally distant ones, and none exactly when no line yields
\* an accepted intersection; a viewer-kind record is never hit.
C9_ClosestHitFirstWins ==
    pc = "hit" =>
      \E X \in { Crossings(currentOrigin, currentDirection) } :
          IF X = {} THEN hit = Null
          ELSE /\ hit # Null
               /\ KindOf(hit.componentId) # "viewer"
               /\ \E x \in X :
                    \E line \in { geometries[x[1][1]].boundingLines[x[1][2]] } :
                       /\ IsClosestFirst(x, X)
                       /\ hit.componentId = geometries[x[1][1]].id
                       /\ hit.segmentIndex = x[1][2] - 1
                       /\ hit.distance = x[2].distance
                       /\ hit.point = x[2].point
                       /\ hit.isReflective = line.reflect
                       /\ OnLine(hit.point, line)
                       /\ dot(hit.normal, subtract(line.p2, line.p1)) = RI(0)
                       /\ dot(hit.normal, hit.normal) = RI(1)

\* Two lines struck at the same closest point, behind a line of a viewer
\* record that the ray crosses first.
C9_Witness ==
    /\ pc = "hit"
    /\ hit # Null
    /\ \E c \in Candidates(currentOrigin, currentDirection) :
          /\ Crossing(currentOrigin, currentDirection, c).distance = hit.distance
          /\ hit.segmentIndex # c[2] - 1
    /\ \E g \in 1..Len(geometries) :
          /\ geometries[g].type = "viewer"
          /\ \E l \in 1..Len(geometries[g].boundingLines) :
               The({ x # Null /\ RLt(Rat(1, 1000), x.distance)
                              /\ RLt(x.distance, hit.distance)
                     : x \in {rayLineIntersection(currentOrigin, currentDirection,
                                                  geometries[g].boundingLines[l].p1,
                                                  geometries[g].boundingLines[l].p2)} })

\* C10: a hit is accepted only at a distance strictly greater than 0.001,
\* so a ray that starts on a surface never hits that surface at its own
\* origin, and every segment with a hit id is longer than 0.001.
C10_HitsBeyondEpsilon ==
    /\ hit # Null => RLt(Rat(1, 1000), hit.distance)
    /\ (pc = "hit" /\ hit # Null) => hit.point # currentOrigin
    /\ \A i \in 1..Len(segments) :
          HasHitId(segments[i])
          => /\ RLt(Rat(1, 1000), segments[i].length)
             /\ EndPoint(segments[i]) # segments[i].origin

\* After a reflection the ray starts on the mirror it left: that line
\* crosses the ray at distance 0 and the query returns another hit.
C10_Witness ==
    /\ pc = "hit"
    /\ bounces > 0
    /\ hit # Null
    /\ \E c \in HittableLines :
          /\ geometries[c[1]].id = Last(segments).hitComponentId
          /\ Crossing(currentOrigin, currentDirection, c) # Null
          /\ Crossing(currentOrigin, currentDirection, c).distance = RI(0)

\* ------------------------------------------------------------------------
\* Properties of computeMirrorImage and computeMirrorImages
\* ------------------------------------------------------------------------

C12_ImageAlongLastDirection ==
    (called = "computeMirrorImage" /\ raySegments # << >>) =>
      imagePosition = add(raySegments[1].origin,
                          scale(normalize(Last(raySegments).direction),
                                SumLengths(raySegments)))

\* C13: computeMirrorImages returns an empty sequence whenever the path is
\* empty or its last segment has no hit id, whatever the earlier segments
\* carry.
C13_NoTerminalHitNoImages ==
    (called = "computeMirrorImages"
       /\ (raySegments = << >> \/ ~ HasHitId(Last(raySegments))))
    => mirrorImages = << >>

\* Earlier legs with hit ids before a last leg without one.
C13_Witness ==
    /\ called = "computeMirrorImages"
    /\ Len(raySegments) >= 3
    /\ HasHitId(raySegments[1])
    /\ HasHitId(raySegments[2])
    /\ ~ HasHitId(Last(raySegments))
    /\ mirrorImages = << >>

\* The indices, counted from 0, of the legs before the last that have a hit id.
ReflectionPoints == { i \in 0..(Len(raySegments) - 2) : HasHitId(raySegments[i + 1]) }

\* C14: for a path whose last segment has a hit id, computeMirrorImages
\* gives exactly one image for every index before the last whose segment
\* has a hit id and none for any other index, each at the position
\* computeMirrorImage gives for the path from that index on, in strictly
\* ascending order of index.
C14_OneImagePerReflection ==
    (called = "computeMirrorImages" /\ raySegments # << >> /\ HasHitId(Last(raySegments)))
    => /\ Len(mirrorImages) = Cardinality(ReflectionPoints)
       /\ \A k \in 1..Len(mirrorImages) :
            /\ mirrorImages[k].reflectionPointIndex \in ReflectionPoints
            /\ k > 1 => mirrorImages[k - 1].reflectionPointIndex
                          < mirrorImages[k].reflectionPointIndex
            /\ LET i == mirrorImages[k].reflectionPointIndex
                   rest == SubSeq(raySegments, i + 1, Len(raySegments))
               IN  mirrorImages[k].position =
                     add(raySegments[i + 1].origin,
                         scale(normalize(raySegments[i + 1].direction), SumLengths(rest)))

\* Reflections at indices 1 and 3 before a last hit at index 4 give the
\* images 1 and 3 in that order.
C14_Witness ==
    /\ called = "computeMirrorImages"
    /\ Len(raySegments) = 5
    /\ ~ HasHitId(raySegments[1])
    /\ HasHitId(raySegments[2])
    /\ ~ HasHitId(raySegments[3])
    /\ HasHitId(raySegments[4])
    /\ HasHitId(raySegments[5])
    /\ Len(mirrorImages) = 2
    /\ mirrorImages[1].reflectionPointIndex = 1
    /\ mirrorImages[2].reflectionPointIndex = 3

\* ------------------------------------------------------------------------
\* Properties of computeRaySegments as a function
\* ------------------------------------------------------------------------

\* C15: two calls of computeRaySegments with identical geometry, viewer and
\* maxLength return identical paths, also when calls with other arguments
\* were made in between.
C15_SameInputsSamePath ==
    (pc = "returned" /\ firstCall # Null /\ inputs = firstCall.inputs)
    => segments = firstCall.result

\* The first call's arguments given again after a call with other
\* arguments, with a path of several legs as the result.
C15_Witness ==
    /\ pc = "returned"
    /\ firstCall # Null
    /\ inputs = firstCall.inputs
    /\ firstCall.others >= 1
    /\ Len(segments) >= 2
    /\ segments = firstCall.result

\* C16: computeRaySegments, findClosestHit, computeMirrorImage and
\* computeMirrorImages leave their arguments as they were: no step changes
\* the geometry records, the viewer, maxLength or the ray segments passed
\* in, and the hit query leaves the ray it is given unchanged.
C16_InputsUnchanged ==
    [][ /\ geometries' = geometries
        /\ viewer' = viewer
        /\ maxLength' = maxLength
        /\ raySegments' = raySegments
        /\ (pc = "loop" /\ pc' = "hit")
           => (currentOrigin' = currentOrigin /\ currentDirection' = currentDirection)
      ]_vars

\* A returned path with a reflection: the ray's origin has moved away from
\* the viewer, whose position is still where the first segment starts.
C16_Witness ==
    /\ pc = "returned"
    /\ bounces >= 1
    /\ currentOrigin # viewer.position
    /\ segments[1].origin = viewer.position
    /\ geometries # << >>

\* C18: computeRaySegments never returns an empty path: the result has at
\* least one segment, and its first segment starts at the viewer position
\* with the viewer's heading, also for a viewer on or inside an obstacle.
C18_NeverEmpty ==
    pc = "returned" =>
      /\ Len(segments) >= 1
      /\ segments[1].origin = viewer.position
      /\ segments[1].direction = directionFromAngle(viewer.orientation)

\* A viewer inside the square of a bunny.
C18_Witness ==
    /\ pc = "returned"
    /\ Len(segments) >= 1
    /\ \E g \in 1..Len(geometries) :
          /\ geometries[g].type = "bunny"
          /\ RLt(geometries[g].boundingLines[1].p1.x, viewer.position.x)
          /\ RLt(viewer.position.x, geometries[g].boundingLines[3].p1.x)
          /\ RLt(geometries[g].boundingLines[1].p1.y, viewer.position.y)
          /\ RLt(viewer.position.y, geometries[g].boundingLines[3].p1.y)
          /\ HasHitId(segments[1])
          /\ segments[1].hitComponentId = geometries[g].id

\* ------------------------------------------------------------------------
\* Properties of getAllGeometry and of the game
\* ------------------------------------------------------------------------

\* startGame runs in this step on a stage with a viewer.
GameStarts ==
    currentMode # "game" /\ currentMode' = "game" /\ getViewer(components) # Null

\* The z-component of the cross product of two edges.
Cross(lineA, lineB) ==
    RSub(RMul(RSub(lineA.p2.x, lineA.p1.x), RSub(lineB.p2.y, lineB.p1.y)),
         RMul(RSub(lineA.p2.y, lineA.p1.y), RSub(lineB.p2.x, lineB.p1.x)))

\* The segment of a wall or mirror is centred at its position, has its
\* length and runs along its orientation.
SpansComponent(line, c) ==
    /\ add(line.p1, line.p2) = scale(c.position, RI(2))
    /\ dot(subtract(line.p2, line.p1), subtract(line.p2, line.p1)) = RMul(c.length, c.length)
    /\ subtract(line.p2, line.p1) = scale(directionFromAngle(c.orientation), c.length)

\* The record g is the geometry of the component c.
IsGeometryOf(g, c) ==
    /\ g.id = c.id
    /\ g.type = c.type
    /\ \A k \in 1..Len(g.boundingLines) : g.boundingLines[k].componentId = c.id
    /\ CASE c.type = "mirror" ->
              /\ Len(g.boundingLines) = 1
              /\ g.boundingLines[1].reflect = TRUE
              /\ SpansComponent(g.boundingLines[1], c)
         [] c.type = "wall" ->
              /\ Len(g.boundingLines) = 1
              /\ g.boundingLines[1].reflect = FALSE
              /\ SpansComponent(g.boundingLines[1], c)
         [] c.type = "bunny" ->
              /\ Len(g.boundingLines) = 4
              /\ \A k \in 1..4 :
                   /\ g.boundingLines[k].reflect = FALSE
                   /\ g.boundingLines[k].p2 = g.boundingLines[(k % 4) + 1].p1
                   /\ RLt(RI(0), Cross(g.boundingLines[k], g.boundingLines[(k % 4) + 1]))
                   /\ RLe(RSub(c.position.x, Rat(1, 10)), g.boundingLines[k].p1.x)
                   /\ RLe(g.boundingLines[k].p1.x, RAdd(c.position.x, Rat(1, 10)))
                   /\ RLe(RSub(c.position.y, Rat(1, 10)), g.boundingLines[k].p1.y)
                   /\ RLe(g.boundingLines[k].p1.y, RAdd(c.position.y, Rat(1, 10)))
         [] c.type \in {"viewer", "phantom"} -> g.boundingLines = << >>

\* C17: getAllGeometry returns one record per component other than mirror
\* images, in input order: a mirror gives one segment flagged reflective, a
\* wall one segment flagged non-reflective, a bunny four non-reflective
\* segments that form a closed loop in one winding, a viewer and a phantom
\* a record without segments.
C17_GeometryPerComponent ==
    [][ GameStarts =>
          LET kept == SelectSeq(components, LAMBDA c : c.type # "mirror_image")
          IN  /\ Len(geometries') = Len(kept)
              /\ \A i \in 1..Len(kept) : IsGeometryOf(geometries'[i], kept[i])
      ]_vars

\* A game started on a stage that holds a component of every kind.
C17_Witness ==
    /\ currentMode = "game"
    /\ { geometries[i].type : i \in 1..Len(geometries) } = GeometryTypes
    /\ \E i \in 1..Len(components) : components[i].type = "mirror_image"
    /\ Len(geometries) < Len(components)

UserPhantoms ==
    { i \in 1..Len(components) :
        components[i].type = "phantom" /\ ~ IsComputedPhantomId(components[i].id) }

\* The square of the distance between two positions.
Distance2(a, b) == dot(subtract(a, b), subtract(a, b))

\* C20: after the mirror image position is computed on entering game mode,
\* the user-placed phantom closest to the computed position is the correct
\* answer.
C20_ClosestUserPhantomIsCorrect ==
    (/\ currentMode = "game"
     /\ components # << >>
     /\ IsComputedPhantomId(Last(components).id)
     /\ UserPhantoms # {})
    => \E i \in UserPhantoms :
          /\ correctPhantomId = components[i].id
          /\ \A j \in UserPhantoms :
               RLe(Distance2(components[i].position, Last(components).position),
                   Distance2(components[j].position, Last(components).position))

\* ------------------------------------------------------------------------
\* Properties of the store and of the mouse events
\* ------------------------------------------------------------------------

\* The values of the store other than gameResult.
storeButResult == << components, currentMode, selectedComponentId, storedRays,
                     correctPhantomId >>

\* C21: checkPhantomGuess(id) sets gameResult to correct iff id is the
\* current correctPhantomId and to incorrect otherwise, so a guess made
\* while no correct phantom is set is incorrect; it changes nothing else in
\* the store; every setMode sets gameResult to null.
C21_GuessResult ==
    [][ /\ \A i \in 1..Len(components) :
             (components[i].type = "phantom" /\ checkPhantomGuess(components[i].id)) =>
                /\ gameResult' \in {"correct", "incorrect"}
                /\ gameResult' = "correct" <=> components[i].id = correctPhantomId
                /\ correctPhantomId = NoId => gameResult' = "incorrect"
                /\ UNCHANGED storeButResult
        /\ (currentMode' # currentMode \/ setMode(currentMode)) => gameResult' = NoId
      ]_vars

\* A guess made in a game that set no correct phantom.
C21_Witness ==
    /\ currentMode = "game"
    /\ correctPhantomId = NoId
    /\ gameResult = "incorrect"

\* The step is a mouse-down on the i-th component.
MouseDownOn(i) ==
    /\ draggingComponent = NoId
    /\ onMouseDown(components[i])
    /\ UNCHANGED << components, currentMode, storedRays, correctPhantomId, now,
                    renderedMode, tracer, history, animation, images >>

\* Dragging a component of the type is allowed in the mode.
DragAllowed(type, mode) ==
    \/ mode = "edit" /\ type # "mirror_image"
    \/ mode = "sandbox" /\ type \in {"viewer", "bunny"}

\* C22: a mouse-down on a component starts a drag and selects the component
\* only when dragging is allowed in the mode: in edit mode for every
\* component but mirror images, in sandbox mode for the viewer and bunnies,
\* in game mode for none; in every other case the position of the
\* component and the selection of the store stay as they were.
C22_DragOnlyWhenAllowed ==
    [][ \A i \in 1..Len(components) :
          MouseDownOn(i) =>
             IF DragAllowed(components[i].type, currentMode)
             THEN /\ draggingComponent' = components[i].id
                  /\ selectedComponentId' = components[i].id
             ELSE /\ draggingComponent' = NoId
                  /\ components' = components
                  /\ selectedComponentId' = selectedComponentId
      ]_vars

\* The computed phantoms among the components.
ComputedPhantoms(components_) ==
    { i \in 1..Len(components_) : IsComputedPhantomId(components_[i].id) }

\* C23: after every switch of the mode to edit or sandbox the stored rays
\* are cleared and no component with a computed_phantom_ id is left on the
\* stage, so the stage never holds more than one computed phantom, however
\* often the game is entered and left.
C23_LeavingGameCleansUp ==
    [][ /\ \A mode \in {"edit", "sandbox"} :
             setMode(mode) => /\ storedRays' = ClearedRays
                              /\ ComputedPhantoms(components') = {}
        /\ currentMode' \in {"edit", "sandbox"} => ComputedPhantoms(components') = {}
        /\ Cardinality(ComputedPhantoms(components')) <= 1
      ]_vars

\* The game was left after it had put a computed phantom on the stage.
C23_Witness ==
    /\ currentMode \in {"edit", "sandbox"}
    /\ IsComputedPhantomId(correctPhantomId)
    /\ storedRays = ClearedRays
    /\ now > 1

\* C30: correctPhantomId is null or the id of a component that is on the
\* stage; it never keeps naming a computed phantom that was removed on
\* leaving game mode.
C30_CorrectPhantomOnStage ==
    \/ correctPhantomId = NoId
    \/ \E i \in 1..Len(components) : components[i].id = correctPhantomId

\* ------------------------------------------------------------------------
\* Properties of the reflections and of the end of the ray
\* ------------------------------------------------------------------------

\* The lines of the record named by the segment's hit id that the point
\* lies on.
LinesThrough(segment, point) ==
    { line \in UNION { { geometries[g].boundingLines[l]
                          : l \in 1..Len(geometries[g].boundingLines) }
                        : g \in { k \in 1..Len(geometries) :
                                     geometries[k].id = segment.hitComponentId } } :
        OnLine(point, line) }

\* C24: a direction reflected off an upright segment has its x-component
\* negated and its y-component kept, and one reflected off a level segment
\* has its y-component negated and its x-component kept; so it is for every
\* segment of a path that follows a hit on such a mirror, the second after
\* the first among them.
C24_AxisAlignedReflection ==
    \A i \in 1..(Len(segments) - 1) :
       \A line \in LinesThrough(segments[i], segments[i + 1].origin) :
          /\ line.p1.x = line.p2.x =>
                segments[i + 1].direction =
                   Vec(RNeg(segments[i].direction.x), segments[i].direction.y)
          /\ line.p1.y = line.p2.y =>
                segments[i + 1].direction =
                   Vec(segments[i].direction.x, RNeg(segments[i].direction.y))

\* A slanted ray reflected first by the level mirror, then by an upright one.
C24_Witness ==
    /\ pc = "returned"
    /\ Len(segments) = 3
    /\ segments[1].hitComponentId = "mirror-5"
    /\ segments[2].hitComponentId = "mirror-1"
    /\ segments[1].direction.x # RI(0)
    /\ segments[1].direction.y # RI(0)
    /\ segments[2].direction = Vec(segments[1].direction.x, RNeg(segments[1].direction.y))
    /\ segments[3].direction = Vec(RNeg(segments[2].direction.x), segments[2].direction.y)

\* The geometry with the endpoints p1 and p2 of every segment of the
\* records in S exchanged.
SwapEndpoints(geometries_, S) ==
    [g \in 1..Len(geometries_) |->
       IF g \in S
       THEN [geometries_[g] EXCEPT !.boundingLines =
               [l \in 1..Len(geometries_[g].boundingLines) |->
                  [geometries_[g].boundingLines[l] EXCEPT
                     !.p1 = geometries_[g].boundingLines[l].p2,
                     !.p2 = geometries_[g].boundingLines[l].p1]]]
       ELSE geometries_[g]]

\* C25: the reflected direction does not depend on the sign of the normal,
\* reflect(d, n) = reflect(d, -n) for the normal of every hit and every
\* direction, and exchanging the endpoints p1 and p2 of the segments of any
\* records of the geometry leaves the returned path as it is.
C25_NormalSignIrrelevant ==
    /\ (pc = "hit" /\ hit # Null) =>
          \A d \in { directionFromAngle(angle) : angle \in Orientations } \cup {currentDirection} :
             reflect(d, hit.normal) = reflect(d, scale(hit.normal, RI(-1)))
    /\ pc = "returned" =>
          \A S \in (SUBSET (1..Len(geometries))) \ {{}} :
             computeRaySegments(SwapEndpoints(geometries, S), viewer, maxLength) = segments

\* A path reflected by the oblique mirror and by an upright one.
C25_Witness ==
    /\ pc = "returned"
    /\ Len(segments) >= 3
    /\ segments[1].hitComponentId = "mirror-3"
    /\ HasHitId(segments[2])
    /\ SwapEndpoints(geometries, {1, 2}) # geometries

\* The segment ended on a segment, flagged reflective, of a mirror record.
EndsOnReflectiveMirror(segment) ==
    /\ HasHitId(segment)
    /\ KindOf(segment.hitComponentId) = "mirror"
    /\ \E line \in LinesThrough(segment, EndPoint(segment)) : line.reflect

\* C26: every segment of a path but the last carries the hit id of a mirror
\* record whose struck segment is flagged reflective; a segment that hit a
\* wall, a bunny or another record that is no mirror, and a segment without
\* hit id, is the last one.
C26_OnlyMirrorsBeforeLast ==
    \A i \in 1..Len(segments) :
       /\ i < Len(segments) => EndsOnReflectiveMirror(segments[i])
       /\ (~ HasHitId(segments[i]) \/ KindOf(segments[i].hitComponentId) # "mirror")
             => i = Len(segments)

\* A path that a record which is no mirror ended after a reflection.
C26_Witness ==
    /\ pc = "returned"
    /\ Len(segments) = 2
    /\ EndsOnReflectiveMirror(segments[1])
    /\ HasHitId(segments[2])
    /\ KindOf(segments[2].hitComponentId) # "mirror"

\* C27: computeMirrorImages gives images for a returned path only if the
\* ray ended on an absorbing object, its last segment having struck a
\* record that is no mirror; a trace that ended because the bounces or the
\* length ran out gives none.
C27_ImagesOnlyWhenAbsorbed ==
    (pc = "returned" /\ computeMirrorImages(segments) # << >>)
       => /\ HasHitId(Last(segments))
          /\ KindOf(Last(segments).hitComponentId) # "mirror"

\* The kind of the first record of the geometry that carries the id.
FirstKindOf(id) ==
    geometries[CHOOSE g \in 1..Len(geometries) :
                  /\ geometries[g].id = id
                  /\ \A k \in 1..(g - 1) : geometries[k].id # id].type

\* The segment the ray struck is flagged reflective.
StruckReflective ==
    \E g \in 1..Len(geometries) :
       /\ geometries[g].id = hit.componentId
       /\ geometries[g].type # "viewer"
       /\ hit.segmentIndex + 1 \in 1..Len(geometries[g].boundingLines)
       /\ OnLine(hit.point, geometries[g].boundingLines[hit.segmentIndex + 1])
       /\ geometries[g].boundingLines[hit.segmentIndex + 1].reflect

\* C28: what follows a hit is decided by the kind of the first record of
\* the geometry that carries the hit's id: a wall or a bunny ends the trace
\* even if the struck segment is flagged reflective, a mirror reflects if
\* the struck segment is flagged reflective and ends the trace otherwise,
\* and every other kind ends the trace.
C28_PolicyByFirstRecord ==
    [][ (pc = "hit" /\ hit # Null) =>
          IF FirstKindOf(hit.componentId) = "mirror" /\ StruckReflective
          THEN /\ pc' = "loop"
               /\ bounces' = bounces + 1
               /\ currentOrigin' = hit.point
          ELSE /\ pc' = "returned"
               /\ UNCHANGED << bounces, currentOrigin, currentDirection >>
      ]_vars

\* The ray was reflected by the segment of the wall twin, the mirror twin
\* being the first record with the id.
C28_Witness ==
    /\ geometries = << TwinMirror, TwinWall >>
    /\ bounces >= 1
    /\ segments[1].hitComponentId = "twin"
    /\ EndPoint(segments[1]).x = RI(2)


\* C29: at most one animation drives a RayAnimationRenderer at a time: an
\* unfold animation performs a rotation step only while the renderer's
\* group is its own (never on the paths of a group that a later call of
\* animateUnfoldRay, animateReverseRay or clear removed), and when it
\* reaches its last statement while isAnimating is true, it is the
\* animation that set isAnimating (it never resets the flag a later
\* animation set).
RotationStep(a) ==
    /\ animations[a].kind = "unfold"
    /\ animations[a].pending
    /\ isAnimating
    /\ animations'[a] # animations[a]

Returns(a) ==
    /\ ~animations[a].returned
    /\ animations'[a].returned

C29_OneAnimationAtATime ==
    [][ \A a \in 1..Len(animations) :
          /\ RotationStep(a) => animationGroup = a
          /\ (Returns(a) /\ isAnimating) => animationGroup = a
      ]_vars

====
